---- MODULE Spec2Model ----
(***************************************************************************)
(* A model of the Slack-RAG repository: the candidate extractor and its    *)
(* association stages (src/candidate_extractor.py), the query-optimised    *)
(* semantic search and the context renderers (src/slack_rag_backend.py),   *)
(* the digest orchestrator with its worker pool (src/generate_digest.py),  *)
(* the chat-API fetch loops, the construction of the backend and the core, *)
(* the message synchronisation (src/slack_analyzer_core.py), the rate      *)
(* limiter (src/rate_limiter.py) and the cache (src/cache.py).             *)
(*                                                                         *)
(* Each subsystem has its own specification (SpecExtractor, SpecSearch,    *)
(* SpecDigest, SpecPool, SpecRender, SpecRenderAcross, SpecFetch,          *)
(* SpecExtract, SpecDates, SpecStartup, SpecDelivery, SpecSync,            *)
(* SpecLimiter, SpecCache); the variables of the other subsystems keep     *)
(* their initial values under it.                                          *)
(***************************************************************************)
EXTENDS Integers, Sequences, FiniteSets, TLC

VARIABLES
    \* ---- CandidateExtractor (src/candidate_extractor.py) ----
    messages,        \* the channel message list handed to every stage
    candidates,      \* self.candidates
    candidate_map,   \* self.candidate_map
    associations,    \* self.associations
    key_order,       \* insertion order of the keys of the two dicts
    stage,           \* how many pipeline stages have run, in order
    repeats,         \* how many calls repeated the stage just run
    last_call,       \* the stage method called last, and what it saw
    \* ---- SlackRAGBackend.semantic_search (src/slack_rag_backend.py) ----
    search,          \* the last semantic_search call
    \* ---- SlackDigestGenerator (src/generate_digest.py) ----
    channels,        \* self.channels
    workspace,       \* what the chat API and the LLM answer, per channel id
    pc,              \* where the generate_digest run is
    queue,           \* the executor's work queue: channels not yet started
    running,         \* the channels whose process_channel job is executing
    futures,         \* the finished jobs: what each future holds
    collected,       \* the futures as_completed has already handed out
    channel_summaries, \* the dict process_channels fills
    digest,          \* the dict generate_digest returns
    \* ---- the chat-API fetch loops (src/slack_analyzer*.py) ----
    fetch,           \* one fetch operation: its loop, the answers, the result
    \* ---- the context renderers (src/slack_rag_backend.py) ----
    render,          \* one rendering call: the window and what was built
    \* ---- SlackDigestGenerator.get_date_range ----
    clock,           \* datetime.now(self.timezone) and what the call gave
    \* ---- construction of the backend and the core ----
    startup,         \* the environment and what each constructor did
    \* ---- one digest run as its caller sees it ----
    delivery,        \* how generate_digest ended and what the caller showed
    \* ---- SlackAnalyzerCore.fetch_and_store_channel_messages ----
    sync,            \* the fetched window, the parents, the stored rows
    \* ---- RateLimiter and rate_limited (src/rate_limiter.py) ----
    limiter,         \* self.calls, the time, the threads inside acquire
    \* ---- PersistentCache (src/cache.py) ----
    cache            \* self.cache, the time, the last call and its result

exVars == <<messages, candidates, candidate_map, associations, key_order,
            stage, repeats, last_call>>
dgVars == <<channels, workspace, pc, queue, running, futures, collected,
            channel_summaries, digest>>
auxVars == <<fetch, render, clock>>
svcVars == <<startup, delivery, sync, limiter, cache>>
vars == <<messages, candidates, candidate_map, associations, key_order,
          stage, repeats, last_call, search, channels, workspace, pc, queue,
          running, futures, collected, channel_summaries, digest, fetch,
          render, clock, startup, delivery, sync, limiter, cache>>

(***************************************************************************)
(* Python values                                                           *)
(***************************************************************************)
\* dict.get() of an absent key: None (falsy); every real id or ts is >= 1
None == 0

Range(s) == {s[i] : i \in 1..Len(s)}

(***************************************************************************)
(* Message texts: a text is a sequence of tokens, a token being a          *)
(* Slack link "<url|name>" or a plain word.                                *)
(***************************************************************************)
Link(u, n) == [kind |-> "link", url |-> u, name |-> n]
Word(w) == [kind |-> "word", url |-> w, name |-> w]

URLs == {"u1", "u2"}

\* str.lower() on the words and names of the model
Lower(s) == CASE s = "Ann" -> "ann"
              [] s = "Bob" -> "bob"
              [] OTHER -> s

\* `sub in text` for a url or word: it occurs in a link's url or as a word
UrlIn(u, text) == \E i \in 1..Len(text) : text[i].url = u

\* `name.lower() in text.lower()`
NameLowerIn(n, text) ==
    \E i \in 1..Len(text) : Lower(text[i].name) = Lower(n)

\* LINKEDIN_REGEX.finditer(text): the links of the text, in order
LinkMatches(text) == SelectSeq(text, LAMBDA t : t.kind = "link")

(***************************************************************************)
(* CandidateExtractor                                                      *)
(***************************************************************************)
ChannelName == "client-a"

\* msg.get('id') or msg.get('ts')
MessageId(msg) == IF msg.id # None THEN msg.id ELSE msg.ts

\* the candidate dict built for one regex match of one message
Candidate(msg, match) ==
    [name |-> match.name, linkedin_url |-> match.url,
     message_id |-> MessageId(msg), timestamp |-> msg.ts,
     channel |-> ChannelName, text |-> msg.text]

\* the bundle stored for a freshly extracted anchor
EmptyBundle(c) ==
    [anchor |-> c, threads |-> <<>>, direct |-> <<>>, fuzzy |-> <<>>]

\* d[k] = v on a dict held as a function
DictSet(d, k, v) == [x \in DOMAIN d \cup {k} |-> IF x = k THEN v ELSE d[x]]

\* the key order of a dict after d[k] = v: a new key goes last
KeysSet(keys, k) == IF k \in Range(keys) THEN keys ELSE Append(keys, k)

\* the extractor's three collections, as one record
Extractor(cs, cm, as, ko) ==
    [candidates |-> cs, candidate_map |-> cm, associations |-> as,
     key_order |-> ko]

\* the body of the inner loop of extract_candidates, for one match
ExtractMatchKeepBundle(ex, msg, match) ==
    LET c == Candidate(msg, match)
    IN  Extractor(Append(ex.candidates, c),
                  DictSet(ex.candidate_map, c.linkedin_url, c),
                  IF c.linkedin_url \in DOMAIN ex.associations
                  THEN DictSet(ex.associations, c.linkedin_url,
                               [ex.associations[c.linkedin_url]
                                    EXCEPT !.anchor = c])
                  ELSE DictSet(ex.associations, c.linkedin_url,
                               EmptyBundle(c)),
                  KeysSet(ex.key_order, c.linkedin_url))

ExtractMatchMut(ex, msg, match) ==
    LET c == Candidate(msg, match)
    IN  Extractor(Append(ex.candidates, c),
                  IF c.linkedin_url \in DOMAIN ex.candidate_map
                  THEN ex.candidate_map
                  ELSE DictSet(ex.candidate_map, c.linkedin_url, c),
                  DictSet(ex.associations, c.linkedin_url, EmptyBundle(c)),
                  KeysSet(ex.key_order, c.linkedin_url))

ExtractMatch(ex, msg, match) ==
    LET c == Candidate(msg, match)
    IN  Extractor(Append(ex.candidates, c),
                  DictSet(ex.candidate_map, c.linkedin_url, c),
                  DictSet(ex.associations, c.linkedin_url, EmptyBundle(c)),
                  KeysSet(ex.key_order, c.linkedin_url))

RECURSIVE ExtractMatches(_, _, _)
ExtractMatches(ex, msg, matches) ==
    IF matches = <<>> THEN ex
    ELSE ExtractMatches(ExtractMatch(ex, msg, Head(matches)), msg,
                        Tail(matches))

RECURSIVE extract_candidates(_, _)
extract_candidates(ex, msgs) ==
    IF msgs = <<>> THEN ex
    ELSE extract_candidates(
             ExtractMatches(ex, Head(msgs), LinkMatches(Head(msgs).text)),
             Tail(msgs))

\* thread_map = {c['anchor']['message_id']: url for url, c in items()}:
\* of two urls anchored in one message the later key wins
RECURSIVE ThreadMap(_, _)
ThreadMap(as, keys) ==
    IF keys = <<>> THEN <<>>
    ELSE LET rest == ThreadMap(as, SubSeq(keys, 1, Len(keys) - 1))
             url == keys[Len(keys)]
         IN  DictSet(rest, as[url].anchor.message_id, url)

\* the condition under which associate_threads appends msg
IsThreadReply(msg, thread_map) ==
    /\ msg.thread_ts # None
    /\ msg.thread_ts \in DOMAIN thread_map
    /\ msg.ts # msg.thread_ts

AppendTo(as, url, field, msg) ==
    [as EXCEPT ![url] = [@ EXCEPT ![field] = Append(@, msg)]]

RECURSIVE ThreadsLoop(_, _, _)
ThreadsLoop(as, msgs, thread_map) ==
    IF msgs = <<>> THEN as
    ELSE LET msg == Head(msgs)
             nxt == IF IsThreadReply(msg, thread_map)
                    THEN AppendTo(as, thread_map[msg.thread_ts], "threads", msg)
                    ELSE as
         IN  ThreadsLoop(nxt, Tail(msgs), thread_map)

associate_threads(as, keys, msgs) ==
    ThreadsLoop(as, msgs, ThreadMap(as, keys))

\* the mention test of associate_direct_mentions
Mentions(url, candidate, msg) ==
    UrlIn(url, msg.text) \/ NameLowerIn(candidate.name, msg.text)

\* the condition under which associate_direct_mentions appends msg
IsDirectMention(url, candidate, msg) ==
    /\ Mentions(url, candidate, msg)
    /\ msg.id # candidate.message_id
    /\ (msg.thread_ts = None \/ msg.thread_ts # candidate.message_id)

RECURSIVE DirectInner(_, _, _, _)
DirectInner(as, cm, keys, msg) ==
    IF keys = <<>> THEN as
    ELSE LET url == Head(keys)
             nxt == IF IsDirectMention(url, cm[url], msg)
                    THEN AppendTo(as, url, "direct", msg)
                    ELSE as
         IN  DirectInner(nxt, cm, Tail(keys), msg)

RECURSIVE associate_direct_mentions(_, _, _, _)
associate_direct_mentions(as, cm, keys, msgs) ==
    IF msgs = <<>> THEN as
    ELSE associate_direct_mentions(DirectInner(as, cm, keys, Head(msgs)),
                                   cm, keys, Tail(msgs))

\* the `continue` test of associate_fuzzy: the pair is already associated
FuzzySkipMut(bundle, candidate, msg) ==
    \/ msg \in Range(bundle.threads)
    \/ msg.id = candidate.message_id

FuzzySkip(bundle, candidate, msg) ==
    \/ msg \in Range(bundle.threads)
    \/ msg \in Range(bundle.direct)
    \/ msg.id = candidate.message_id

\* the (message, url) pairs in the order the two nested loops visit them
RECURSIVE FuzzyPairs(_, _)
FuzzyPairs(msgs, keys) ==
    IF msgs = <<>> THEN <<>>
    ELSE [i \in 1..Len(keys) |-> [msg |-> Head(msgs), url |-> keys[i]]]
         \o FuzzyPairs(Tail(msgs), keys)

\* One pass of associate_fuzzy from the pair list on.  st.calls counts the
\* semantic_search calls made; the judge's call number judge.raise_at raises
\* and nothing in associate_fuzzy catches it, so the loops end there;
\* judge.names are the names found in ''.join(top_docs).
RECURSIVE FuzzyLoop(_, _, _, _)
FuzzyLoop(st, cm, pairs, judge) ==
    IF pairs = <<>> THEN st
    ELSE LET msg == Head(pairs).msg
             url == Head(pairs).url
         IN  IF FuzzySkip(st.as[url], cm[url], msg)
             THEN FuzzyLoop(st, cm, Tail(pairs), judge)
             ELSE IF st.calls + 1 = judge.raise_at
             THEN [st EXCEPT !.calls = @ + 1, !.raised = TRUE]
             ELSE LET nxt == IF cm[url].name \in judge.names
                             THEN AppendTo(st.as, url, "fuzzy", msg)
                             ELSE st.as
                  IN  FuzzyLoop([st EXCEPT !.as = nxt, !.calls = @ + 1],
                                cm, Tail(pairs), judge)

associate_fuzzy(as, cm, keys, msgs, judge) ==
    FuzzyLoop([as |-> as, calls |-> 0, raised |-> FALSE], cm,
              FuzzyPairs(msgs, keys), judge)

\* the pairs of a pass that associate_fuzzy has to put to the judge
FuzzyDue(as, cm, keys, msgs) ==
    LET pairs == FuzzyPairs(msgs, keys)
    IN  {i \in 1..Len(pairs) :
            ~FuzzySkip(as[pairs[i].url], cm[pairs[i].url], pairs[i].msg)}

(***************************************************************************)
(* The extractor's inputs                                                  *)
(***************************************************************************)
\* the longest channel message list
MaxMsgs == 2
\* how many calls of a run may repeat a stage (or extract again)
MaxRepeats == 1

TextPlain == <<Word("hi")>>
TextAnchor == <<Link("u1", "Ann")>>
TextTwoAnchors == <<Link("u1", "Ann"), Link("u2", "Bob")>>
TextMention == <<Word("ann")>>
Texts == {TextPlain, TextAnchor, TextTwoAnchors, TextMention}

\* thread_ts of a message: absent, a root older than the list (ts 1), or the
\* first message of the list (ts 2)
ThreadChoices == {None, 1, 2}

\* The i-th message of a list: timestamps are distinct and start at 2; a
\* message read from storage carries its row id, one fetched from the chat
\* API has no 'id' at all.
Message(i, has_id, thread_ts, text) ==
    [id |-> IF has_id THEN 100 + i ELSE None, ts |-> i + 1,
     thread_ts |-> thread_ts, text |-> text]

MessageLists ==
    UNION {{[i \in 1..n |-> Message(i, has_id, th[i], tx[i])] :
               has_id \in BOOLEAN, th \in [1..n -> ThreadChoices],
               tx \in [1..n -> Texts]} : n \in 0..MaxMsgs}

\* What the judge (rag_backend.semantic_search) does during one pass over
\* `due` pairs: which candidate names its top documents contain, and which
\* of its calls raises (0: none).
Judges(names, due) == [names : SUBSET names, raise_at : 0..due]

NoCall == [op |-> "none", repeat |-> FALSE, before |-> <<>>,
           calls |-> 0, due |-> 0, raised |-> FALSE,
           judge |-> [names |-> {}, raise_at |-> 0]]

Call(op, repeat, before, calls, due, raised, judge) ==
    [op |-> op, repeat |-> repeat, before |-> before, calls |-> calls,
     due |-> due, raised |-> raised, judge |-> judge]

NoSearch == [called |-> FALSE, query |-> "", optimizer_failed |-> FALSE,
             submitted |-> "", where |-> <<>>, n_results |-> 0,
             raised |-> FALSE, returned |-> <<>>]

\* no fetch, rendering or date-range call: these variables under the
\* specifications of the other subsystems
NoFetch == [op |-> "none", pages |-> 0, pc |-> "idle", cursor |-> 0,
            all_messages |-> <<>>, answer |-> "none", seen |-> {},
            depth |-> 0]
NoRender == [op |-> "none"]
NoClock == [op |-> "none", now |-> 0, start_date_str |-> 0,
            end_date_str |-> 0, raised |-> FALSE, start_date |-> 0,
            end_date |-> 0]
NoAux == fetch = NoFetch /\ render = NoRender /\ clock = NoClock

\* nothing constructed, run, synced, rate-limited or cached
NoStartup == [op |-> "none", env |-> {}, config |-> "none",
              args |-> [openai_api_key |-> FALSE, slack_token |-> FALSE],
              backend |-> "none", core |-> "none",
              result |-> [op |-> "none", raised |-> FALSE, value |-> ""]]
NoDelivery == [op |-> "none", caller |-> "none", init |-> "none",
               signal |-> "none", exit_code |-> "none", text |-> "",
               payload |-> <<>>]
NoSync == [op |-> "none", todo |-> <<>>, all_messages |-> <<>>,
           window |-> {}, parents |-> <<>>, replies |-> "ok",
           stored |-> {}, raised |-> FALSE]
NoLimiter == [op |-> "none", now |-> 0, calls |-> <<>>, admitted |-> <<>>,
              max_retries |-> 0, rate_limit_calls |-> 0, threads |-> <<>>]
NoCache == [op |-> "none", now |-> 0, max_size |-> 0, ttl |-> 0,
            cache |-> <<>>, disk |-> <<>>, written |-> <<>>, key |-> "",
            result |-> "None", before |-> <<>>]
NoSvc ==
    /\ startup = NoStartup
    /\ delivery = NoDelivery
    /\ sync = NoSync
    /\ limiter = NoLimiter
    /\ cache = NoCache

\* no digest run: the digest generator's variables under the other
\* specifications
NoDigest ==
    /\ channels = <<>>
    /\ workspace = <<>>
    /\ pc = "idle"
    /\ queue = <<>>
    /\ running = {}
    /\ futures = <<>>
    /\ collected = {}
    /\ channel_summaries = <<>>
    /\ digest = <<>>

\* no extractor: the extractor's variables under the other specifications
NoExtractor ==
    /\ messages = <<>>
    /\ candidates = <<>>
    /\ candidate_map = <<>>
    /\ associations = <<>>
    /\ key_order = <<>>
    /\ stage = 0
    /\ repeats = 0
    /\ last_call = NoCall

InitExtractor ==
    /\ messages \in MessageLists
    /\ candidates = <<>>
    /\ candidate_map = <<>>
    /\ associations = <<>>
    /\ key_order = <<>>
    /\ stage = 0
    /\ repeats = 0
    /\ last_call = NoCall
    /\ search = NoSearch
    /\ NoAux
    /\ NoSvc
    /\ NoDigest

\* A stage method may be called when the stage before it ran last, or once
\* more right after itself.
MayCall(k) ==
    \/ stage = k - 1
    \/ stage = k /\ repeats < MaxRepeats

Repeats(k) == IF stage = k THEN repeats + 1 ELSE repeats

\* extract_candidates(messages, channel_name), on a fresh extractor or again
\* on one that already holds associations
ExtractCandidates ==
    /\ stage = 0 \/ repeats < MaxRepeats
    /\ LET ex == extract_candidates(
                     Extractor(candidates, candidate_map, associations,
                               key_order), messages)
       IN  /\ candidates' = ex.candidates
           /\ candidate_map' = ex.candidate_map
           /\ associations' = ex.associations
           /\ key_order' = ex.key_order
    /\ repeats' = IF stage = 0 THEN repeats ELSE repeats + 1
    /\ stage' = 1
    /\ last_call' = Call("extract", stage = 1, associations, 0, 0, FALSE,
                         NoCall.judge)
    /\ UNCHANGED <<svcVars, auxVars, messages, search, dgVars>>

AssociateThreads ==
    /\ MayCall(2)
    /\ associations' = associate_threads(associations, key_order, messages)
    /\ stage' = 2
    /\ repeats' = Repeats(2)
    /\ last_call' = Call("threads", stage = 2, associations, 0, 0, FALSE,
                         NoCall.judge)
    /\ UNCHANGED <<svcVars, auxVars, messages, candidates, candidate_map, key_order, search,
                   dgVars>>

AssociateDirectMentions ==
    /\ MayCall(3)
    /\ associations' = associate_direct_mentions(associations, candidate_map,
                                                 key_order, messages)
    /\ stage' = 3
    /\ repeats' = Repeats(3)
    /\ last_call' = Call("direct", stage = 3, associations, 0, 0, FALSE,
                         NoCall.judge)
    /\ UNCHANGED <<svcVars, auxVars, messages, candidates, candidate_map, key_order, search,
                   dgVars>>

\* associate_fuzzy(messages, rag_backend, channel_name); a repeated call
\* meets the same judge as the call it repeats
AssociateFuzzy ==
    /\ MayCall(4)
    /\ LET due == Cardinality(FuzzyDue(associations, candidate_map,
                                       key_order, messages))
           names == {candidate_map[u].name : u \in DOMAIN candidate_map}
       IN  \E judge \in Judges(names, due) :
              /\ stage = 4 => judge = last_call.judge
              /\ LET res == associate_fuzzy(associations, candidate_map,
                                            key_order, messages, judge)
                 IN  /\ associations' = res.as
                     /\ last_call' = Call("fuzzy", stage = 4, associations,
                                          res.calls, due, res.raised, judge)
    /\ stage' = 4
    /\ repeats' = Repeats(4)
    /\ UNCHANGED <<svcVars, auxVars, messages, candidates, candidate_map, key_order, search,
                   dgVars>>

NextExtractor ==
    \/ ExtractCandidates
    \/ AssociateThreads
    \/ AssociateDirectMentions
    \/ AssociateFuzzy

SpecExtractor == InitExtractor /\ [][NextExtractor]_vars

\* Texts with a profile URL written without the "<url|name>" markup, alone
\* or after a link; the URL is then a word of the text like any other.
ExtractTexts ==
    Texts \cup {<<Word("u2")>>, <<Link("u1", "Ann"), Word("u2")>>}

ExtractLists ==
    UNION {{[i \in 1..n |-> Message(i, has_id, None, tx[i])] :
               has_id \in BOOLEAN, tx \in [1..n -> ExtractTexts]} :
           n \in 0..MaxMsgs}

\* a fresh extractor, about to be given a list with links of both forms
InitExtract ==
    /\ messages \in ExtractLists
    /\ candidates = <<>>
    /\ candidate_map = <<>>
    /\ associations = <<>>
    /\ key_order = <<>>
    /\ stage = 0
    /\ repeats = 0
    /\ last_call = NoCall
    /\ search = NoSearch
    /\ NoAux
    /\ NoSvc
    /\ NoDigest

SpecExtract == InitExtract /\ [][ExtractCandidates]_vars

(***************************************************************************)
(* Claims about the association stages                                     *)
(***************************************************************************)
\* in how many of the three lists of a bundle the message occurs
ListsHolding(bundle, msg) ==
    (IF msg \in Range(bundle.threads) THEN 1 ELSE 0)
    + (IF msg \in Range(bundle.direct) THEN 1 ELSE 0)
    + (IF msg \in Range(bundle.fuzzy) THEN 1 ELSE 0)

\* C1: once extract_candidates, associate_threads, associate_direct_mentions
\* and associate_fuzzy have run in that order over one message list, every
\* message is in at most one of threads, direct and fuzzy of each candidate.
C1_Exclusive ==
    stage = 4 =>
        \A url \in DOMAIN associations : \A i \in 1..Len(messages) :
            ListsHolding(associations[url], messages[i]) <= 1

\* C1 witness: the four stages have run and one candidate has a fuzzy match
\* next to a direct mention, another (or the same) has a thread reply
C1_Witness ==
    /\ stage = 4
    /\ last_call.op = "fuzzy"
    /\ \E url \in DOMAIN associations :
          /\ associations[url].fuzzy # <<>>
          /\ associations[url].direct # <<>>
    /\ \E url \in DOMAIN associations : associations[url].threads # <<>>

\* C2: a stage called a second time with the same candidates and messages
\* leaves every bundle as the first call left it.
C2_Idempotent ==
    (last_call.repeat /\ last_call.op # "extract") =>
        associations = last_call.before

\* C3: a judge that raises for one pair leaves associate_fuzzy without an
\* exception and with every pair that was due put to the judge.
C3_FailSoft ==
    (last_call.op = "fuzzy" /\ last_call.judge.raise_at > 0) =>
        /\ ~last_call.raised
        /\ last_call.calls = last_call.due

\* The thread root that ThreadChoices calls "older than the list": a stored
\* submission of ts 1, before the queried window, which the date-range
\* query from 0 of get_recent_thread_replies_with_parent returns.
OlderRoot(has_id) == Message(0, has_id, None, TextAnchor)

\* parent_lookup.get(reply.get('thread_ts')) over the messages of storage:
\* the messages with that 'ts' (none: the lookup gives None)
parent_lookup(all_msgs, thread_ts) ==
    {m \in Range(all_msgs) : m.ts = thread_ts}

\* C12: a reply whose thread root is a submission older than the message
\* list, a root the parent lookup in storage resolves, is among the thread
\* replies of that root's candidate once associate_threads has run.
C12_RootOutsideWindow ==
    stage >= 2 =>
        \A i \in 1..Len(messages) :
            LET msg == messages[i]
                parents == parent_lookup(
                               <<OlderRoot(msg.id # None)>> \o messages,
                               msg.thread_ts)
            IN  (msg.thread_ts = 1 /\ parents # {}
                 /\ \A p \in parents : LinkMatches(p.text) # <<>>)
                    => \E url \in DOMAIN associations :
                          /\ \E p \in parents :
                                UrlIn(url, p.text)
                          /\ msg \in Range(associations[url].threads)

\* C13: once associate_direct_mentions has run, the direct list of a
\* candidate holds neither the candidate's anchor message nor a reply in
\* the thread of that anchor, with messages that carry an 'id' as with
\* messages that have only their 'ts'.
C13_DirectExcludesAnchorThread ==
    stage >= 3 =>
        \A url \in DOMAIN associations :
            \A msg \in Range(associations[url].direct) :
                /\ msg.ts # associations[url].anchor.timestamp
                /\ msg.thread_ts # associations[url].anchor.timestamp

\* the trailing path segment of a profile URL
Slug(url) == <<"slug of", url>>

\* the profile references of a text, in order: a link gives its label as
\* the name, a bare profile URL its slug
ProfileRefs(text) ==
    LET refs == SelectSeq(text, LAMBDA t : t.kind = "link" \/ t.url \in URLs)
    IN  [i \in 1..Len(refs) |->
            [name |-> IF refs[i].kind = "link" THEN refs[i].name
                      ELSE Slug(refs[i].url),
             linkedin_url |-> refs[i].url]]

RECURSIVE ExpectedCandidates(_)
ExpectedCandidates(msgs) ==
    IF msgs = <<>> THEN <<>>
    ELSE LET refs == ProfileRefs(Head(msgs).text)
         IN  [i \in 1..Len(refs) |->
                 [name |-> refs[i].name, linkedin_url |-> refs[i].linkedin_url,
                  timestamp |-> Head(msgs).ts]]
             \o ExpectedCandidates(Tail(msgs))

\* C16: extract_candidates on a fresh extractor returns one candidate per
\* profile reference of the messages, bracketed or bare, in message order
\* and match order, a bare URL taking its slug as the name.
C16_OnePerMatchBothForms ==
    (stage = 1 /\ repeats = 0) =>
        [i \in 1..Len(candidates) |->
            [name |-> candidates[i].name,
             linkedin_url |-> candidates[i].linkedin_url,
             timestamp |-> candidates[i].timestamp]]
        = ExpectedCandidates(messages)

\* the anchor occurrences of a message list: one candidate per "<url|name>"
\* link, by message and then by position in the text
RECURSIVE AnchorOccurrences(_)
AnchorOccurrences(msgs) ==
    IF msgs = <<>> THEN <<>>
    ELSE LET links == LinkMatches(Head(msgs).text)
         IN  [j \in 1..Len(links) |-> Candidate(Head(msgs), links[j])]
             \o AnchorOccurrences(Tail(msgs))

\* the position of the last record of the list with this profile URL
LastIndexOf(cs, url) ==
    CHOOSE i \in 1..Len(cs) :
        /\ cs[i].linkedin_url = url
        /\ \A j \in (i + 1)..Len(cs) : cs[j].linkedin_url # url

\* C21: after extraction over any sequence of messages the candidates list
\* holds one record per anchor occurrence, each further extraction adding
\* its occurrences again, and candidate_map[url] is the candidate of the
\* most recently extracted anchor for that URL.
C21_ListAccumulatesMapLastWins ==
    LET anchors == AnchorOccurrences(messages)
        n == Len(anchors)
    IN  /\ stage >= 1 => Len(candidates) >= n
        /\ n = 0 => candidates = <<>>
        /\ n > 0 =>
              /\ Len(candidates) % n = 0
              /\ \A i \in 1..Len(candidates) :
                    candidates[i] = anchors[((i - 1) % n) + 1]
        /\ DOMAIN candidate_map
               = {candidates[i].linkedin_url : i \in 1..Len(candidates)}
        /\ \A url \in DOMAIN candidate_map :
              candidate_map[url] = candidates[LastIndexOf(candidates, url)]

\* C21 witness: one profile URL was submitted in two messages and extracted
\* twice; the list holds the four records, the map the later message's
C21_Witness ==
    /\ last_call.op = "extract" /\ last_call.repeat
    /\ \E i, j \in 1..Len(candidates) :
          /\ i < j
          /\ candidates[i].linkedin_url = candidates[j].linkedin_url
          /\ candidates[i].timestamp < candidates[j].timestamp
          /\ candidate_map[candidates[i].linkedin_url] = candidates[j]
    /\ Len(candidates) = 2 * Len(AnchorOccurrences(messages))

\* C30: candidate_map and associations always have the same keys and each
\* bundle's anchor is the candidate the map holds for its URL; an extraction
\* that meets a known URL again replaces the whole bundle, so right after
\* it the threads, direct and fuzzy lists of that URL are empty.
C30_BundleFollowsMap ==
    /\ DOMAIN associations = DOMAIN candidate_map
    /\ \A url \in DOMAIN associations :
          associations[url].anchor = candidate_map[url]
    /\ last_call.op = "extract" =>
          \A i \in 1..Len(messages) :
              \A j \in 1..Len(LinkMatches(messages[i].text)) :
                  LET url == LinkMatches(messages[i].text)[j].url
                  IN  /\ url \in DOMAIN associations
                      /\ associations[url].threads = <<>>
                      /\ associations[url].direct = <<>>
                      /\ associations[url].fuzzy = <<>>

\* C30 witness: a URL whose bundle held a thread reply or a direct mention
\* was extracted again and its bundle is empty
C30_Witness ==
    /\ last_call.op = "extract"
    /\ \E url \in DOMAIN last_call.before :
          /\ \/ last_call.before[url].threads # <<>>
             \/ last_call.before[url].direct # <<>>
          /\ url \in DOMAIN associations
          /\ associations[url].threads = <<>>
          /\ associations[url].direct = <<>>

(***************************************************************************)
(* SlackRAGBackend.semantic_search and its query optimizer                 *)
(***************************************************************************)
Queries == {"Ann feedback", "Bob status", "pipeline"}

\* what claude.messages.create does for the optimizer prompt: it answers
\* with a rewritten query, or raises
OptimizerOutcomes ==
    [ok : {TRUE}, text : {"Ann candidate feedback", "pipeline"}]
    \cup [ok : {FALSE}, text : {"timeout", "overloaded"}]

\* f"[ERROR] Claude API error: {str(e)}"
ErrorText(e) == CASE e = "timeout" -> "[ERROR] Claude API error: timeout"
                  [] OTHER -> "[ERROR] Claude API error: overloaded"

\* optimize_query_with_claude(query): the optimizer's text, or on any
\* exception the error text, returned as if it were the optimized query
optimize_query_with_claude(query, outcome) ==
    IF outcome.ok THEN outcome.text ELSE ErrorText(outcome.text)

\* the `where` filter of semantic_search; "" stands for an absent (falsy)
\* argument, <<>> for the empty dict
WhereFilter(channel, start_date, end_date) ==
    LET w1 == IF channel # "" THEN DictSet(<<>>, "channel", channel) ELSE <<>>
        w2 == IF start_date # ""
              THEN DictSet(w1, "datetime", DictSet(<<>>, "$gte", start_date))
              ELSE w1
    IN  IF end_date # ""
        THEN DictSet(w2, "datetime",
                     DictSet(IF "datetime" \in DOMAIN w2 THEN w2["datetime"]
                             ELSE <<>>, "$lte", end_date))
        ELSE w2

\* what collection.query does: it raises, or answers with results whose
\* "documents" entry is empty or holds one list of documents
CollectionOutcomes ==
    [raises : {TRUE}, documents : {<<>>}]
    \cup [raises : {FALSE},
          documents : {<<>>, <<<<>>>>, <<<<"doc Ann">>>>,
                       <<<<"doc Ann", "doc Bob">>>>}]

\* results["documents"][0] if results["documents"] else []
FirstDocuments(documents) == IF documents # <<>> THEN documents[1] ELSE <<>>

InitSearch ==
    /\ NoExtractor
    /\ search = NoSearch
    /\ NoAux
    /\ NoSvc
    /\ NoDigest

\* semantic_search(query, n_results, channel, start_date, end_date)
SemanticSearch ==
    \E query \in Queries, n_results \in {3, 10}, channel \in {"", ChannelName},
       start_date \in {"", "2025-05-05"}, end_date \in {"", "2025-05-11"},
       outcome \in OptimizerOutcomes, answer \in CollectionOutcomes :
        LET optimized_query == optimize_query_with_claude(query, outcome)
        IN  search' = [called |-> TRUE, query |-> query,
                       optimizer_failed |-> ~outcome.ok,
                       submitted |-> optimized_query,
                       where |-> WhereFilter(channel, start_date, end_date),
                       n_results |-> n_results,
                       raised |-> answer.raises,
                       returned |-> IF answer.raises THEN <<>>
                                    ELSE FirstDocuments(answer.documents)]
    /\ UNCHANGED <<svcVars, auxVars, exVars, dgVars>>

NextSearch == SemanticSearch

SpecSearch == InitSearch /\ [][NextSearch]_vars

\* C4: when the optimizer call fails, the embedding collection is queried
\* with the caller's query text, unmodified.
C4_OriginalQueryOnOptimizerError ==
    (search.called /\ search.optimizer_failed) =>
        search.submitted = search.query

(***************************************************************************)
(* SlackDigestGenerator: the chat API and the LLM as the run meets them    *)
(***************************************************************************)
\* ThreadPoolExecutor(max_workers=10)
max_workers == 10

\* channel names: a prefix and a rest (the rest is the channel's number)
ChannelNamed(i) ==
    [prefix |-> IF i = 1 THEN "internal-" ELSE "client-", rest |-> i]

Channel(i, is_member, is_archived) ==
    [id |-> i, name |-> ChannelNamed(i), is_member |-> is_member,
     is_archived |-> is_archived]

\* Messages of a history page: a plain top-level message, a thread root
\* (thread_ts = ts), a thread reply (thread_ts of an older root), and a
\* top-level message without a 'user' key.
TopMsg == [ts |-> 5, thread_ts |-> None, has_user |-> TRUE]
RootMsg == [ts |-> 6, thread_ts |-> 6, has_user |-> TRUE]
ReplyMsg == [ts |-> 7, thread_ts |-> 2, has_user |-> TRUE]
BotMsg == [ts |-> 8, thread_ts |-> None, has_user |-> FALSE]

\* One answer of conversations_history: a page of messages, a SlackApiError,
\* or another exception (a transport error of the client).
OkPage(msgs) == [outcome |-> "ok", messages |-> msgs]
SlackErrorPage == [outcome |-> "slack_error", messages |-> <<>>]
ErrorPage == [outcome |-> "error", messages |-> <<>>]

\* the answers to the successive page requests of one channel's window; a
\* page has a next_cursor when another answer follows it
Histories ==
    {<<OkPage(<<>>)>>, <<OkPage(<<TopMsg>>)>>, <<OkPage(<<ReplyMsg>>)>>,
     <<OkPage(<<RootMsg>>)>>, <<OkPage(<<BotMsg>>)>>,
     <<SlackErrorPage>>, <<ErrorPage>>,
     <<OkPage(<<TopMsg>>), SlackErrorPage>>,
     <<OkPage(<<TopMsg>>), OkPage(<<ReplyMsg>>)>>}

HasRoot(history) ==
    \E i \in 1..Len(history) : RootMsg \in Range(history[i].messages)

\* What the collaborators do for one channel: the history pages, the answer
\* of conversations_replies for a thread root, and whether the LLM call of
\* the channel's summary raises.
Behaviours ==
    {b \in [history : Histories, thread : {"ok", "slack_error", "error"},
            llm : {"ok", "error"}] :
        /\ b.thread # "ok" => HasRoot(b.history)
        /\ b.llm # "ok" => b.history[1] = OkPage(<<TopMsg>>)}

QuietBehaviour == [history |-> <<OkPage(<<>>)>>, thread |-> "ok", llm |-> "ok"]

(***************************************************************************)
(* SlackDigestGenerator.process_channel and what it calls                  *)
(***************************************************************************)
\* get_conversation_history: pages are appended until one has no
\* next_cursor; a SlackApiError ends the loop with the messages so far,
\* any other exception leaves the method
RECURSIVE get_conversation_history(_, _)
get_conversation_history(pages, all_messages) ==
    IF pages = <<>> THEN [raised |-> FALSE, messages |-> all_messages]
    ELSE LET page == Head(pages)
         IN  CASE page.outcome = "slack_error" ->
                      [raised |-> FALSE, messages |-> all_messages]
               [] page.outcome = "error" ->
                      [raised |-> TRUE, messages |-> <<>>]
               [] OTHER ->
                      get_conversation_history(
                          Tail(pages), all_messages \o page.messages)

\* `msg.get('thread_ts') and msg.get('thread_ts') != msg.get('ts')`
IsReply(msg) == msg.thread_ts # None /\ msg.thread_ts # msg.ts

IsThreadParent(msg) == msg.thread_ts # None /\ msg.thread_ts = msg.ts

\* enrich_message: user_name is set only for a message with a 'user' key; a
\* thread parent fetches its thread, where get_thread_messages swallows a
\* SlackApiError and lets any other exception through
enrich_message(msg, thread) ==
    [raised |-> IsThreadParent(msg) /\ thread = "error",
     message |-> [ts |-> msg.ts, has_user_name |-> msg.has_user,
                  is_thread_parent |-> IsThreadParent(msg),
                  thread_count |-> IF IsThreadParent(msg) /\ thread = "ok"
                                   THEN 1 ELSE 0]]

NoSummary(channel) ==
    [id |-> channel.id, name |-> channel.name, messages |-> <<>>,
     has_activity |-> FALSE]

\* process_channel(channel, start_ts, end_ts): what the job's future holds,
\* an exception (raised) or the channel_summary (data)
process_channel(channel, behaviour) ==
    IF ~channel.is_member \/ channel.is_archived
    THEN [raised |-> FALSE, data |-> NoSummary(channel)]
    ELSE LET fetched == get_conversation_history(behaviour.history, <<>>)
             top_level == SelectSeq(fetched.messages, LAMBDA m : ~IsReply(m))
             enriched == [i \in 1..Len(top_level) |->
                             enrich_message(top_level[i], behaviour.thread)]
         IN  IF fetched.raised
                \/ \E i \in 1..Len(enriched) : enriched[i].raised
             THEN [raised |-> TRUE, data |-> NoSummary(channel)]
             ELSE IF fetched.messages = <<>> \/ enriched = <<>>
             THEN [raised |-> FALSE, data |-> NoSummary(channel)]
             ELSE [raised |-> FALSE,
                   data |-> [id |-> channel.id, name |-> channel.name,
                             messages |-> [i \in 1..Len(enriched) |->
                                              enriched[i].message],
                             has_activity |-> TRUE]]

\* generate_channel_summary(channel_data): the LLM's text, the no-activity
\* sentence, or, on any exception while formatting or asking the LLM
\* (msg['user_name'] of a message that has none is a KeyError), the text
\* "Error generating summary: ..."
generate_channel_summary(channel_data, llm) ==
    IF ~channel_data.has_activity THEN "no activity"
    ELSE IF \E i \in 1..Len(channel_data.messages) :
                ~channel_data.messages[i].has_user_name
    THEN "error generating summary"
    ELSE IF llm = "error" THEN "error generating summary"
    ELSE "summary"

\* active_channels of process_channels
IsActive(channel) == channel.is_member /\ ~channel.is_archived

SummaryKeyMut(channel) == ChannelNamed(1)

\* the key under which process_channels stores a channel's data
SummaryKey(channel) == channel.name

CollectFutureNoCatch(summaries, channel, future) ==
    IF future.raised
    THEN [aborted |-> TRUE, summaries |-> summaries]
    ELSE IF future.data.has_activity
    THEN [aborted |-> FALSE,
          summaries |-> DictSet(summaries, SummaryKey(channel), future.data)]
    ELSE [aborted |-> FALSE, summaries |-> summaries]

CollectFutureKeepAll(summaries, channel, future) ==
    IF future.raised
    THEN [aborted |-> FALSE, summaries |-> summaries]
    ELSE [aborted |-> FALSE,
          summaries |-> DictSet(summaries, SummaryKey(channel), future.data)]

\* The body of the as_completed loop for one future: the data of a job that
\* found activity is stored under the channel's name; an exception of the
\* job is caught and printed.
CollectFuture(summaries, channel, future) ==
    IF future.raised
    THEN [aborted |-> FALSE, summaries |-> summaries]
    ELSE IF future.data.has_activity
    THEN [aborted |-> FALSE,
          summaries |-> DictSet(summaries, SummaryKey(channel), future.data)]
    ELSE [aborted |-> FALSE, summaries |-> summaries]

\* the second half of generate_digest: one summary per entry of
\* channel_summaries (none at all when the dict is empty)
Summaries(summaries, behaviours) ==
    [name \in DOMAIN summaries |->
        generate_channel_summary(summaries[name],
                                 behaviours[summaries[name].id].llm)]

(***************************************************************************)
(* One generate_digest run: the orchestrating thread and the pool          *)
(***************************************************************************)
\* the channels of the workspace
NumChannels == 2
\* the channels of the workspace when the pool is the subject: one more
\* than the pool has workers
PoolChannels == max_workers + 1

\* The workspace has channels 1..n with distinct names; every channel is a
\* member channel or not, archived or not, and the collaborators behave in
\* some way for each channel the run will process.
DigestInputs(n) ==
    {[channels |-> [i \in 1..n |-> Channel(i, flags[i][1], flags[i][2])],
      workspace |-> beh] :
        flags \in [1..n -> BOOLEAN \X BOOLEAN],
        beh \in [1..n -> Behaviours]}

InitDigestWith(inputs) ==
    /\ NoExtractor
    /\ search = NoSearch
    /\ NoAux
    /\ NoSvc
    /\ \E input \in inputs :
          /\ \A i \in 1..Len(input.channels) :
                ~IsActive(input.channels[i])
                    => input.workspace[i] = QuietBehaviour
          /\ channels = input.channels
          /\ workspace = input.workspace
    /\ pc = "idle"
    /\ queue = <<>>
    /\ running = {}
    /\ futures = <<>>
    /\ collected = {}
    /\ channel_summaries = <<>>
    /\ digest = <<>>

InitDigest == InitDigestWith(DigestInputs(NumChannels))

\* a workspace of active channels with one message each
InitPool ==
    InitDigestWith(
        {[channels |-> [i \in 1..PoolChannels |-> Channel(i, TRUE, FALSE)],
          workspace |-> [i \in 1..PoolChannels |->
                            [history |-> <<OkPage(<<TopMsg>>)>>,
                             thread |-> "ok", llm |-> "ok"]]]})

\* generate_digest -> process_channels: every active channel is submitted
StartRun ==
    /\ pc = "idle"
    /\ pc' = "pool"
    /\ queue' = SelectSeq(channels, IsActive)
    /\ UNCHANGED <<svcVars, auxVars, exVars, search, channels, workspace, running, futures,
                   collected, channel_summaries, digest>>

CanStartWorkerMut == TRUE

\* the pool runs at most max_workers jobs at a time
CanStartWorker == Cardinality(running) < max_workers

\* a free worker thread takes the next job of the queue
WorkerStart ==
    /\ pc = "pool"
    /\ queue # <<>>
    /\ CanStartWorker
    /\ running' = running \cup {Head(queue).id}
    /\ queue' = Tail(queue)
    /\ UNCHANGED <<svcVars, auxVars, exVars, search, channels, workspace, pc, futures,
                   collected, channel_summaries, digest>>

\* a job ends: its future holds what process_channel returned or raised
WorkerFinish ==
    /\ pc = "pool"
    /\ \E id \in running :
          /\ running' = running \ {id}
          /\ futures' = DictSet(futures, id,
                                process_channel(channels[id], workspace[id]))
    /\ UNCHANGED <<svcVars, auxVars, exVars, search, channels, workspace, pc, queue,
                   collected, channel_summaries, digest>>

\* the orchestrating thread takes the next future of as_completed
Collect ==
    /\ pc = "pool"
    /\ \E id \in DOMAIN futures \ collected :
          LET res == CollectFuture(channel_summaries, channels[id],
                                   futures[id])
          IN  /\ collected' = collected \cup {id}
              /\ channel_summaries' = res.summaries
              /\ pc' = IF res.aborted THEN "aborted" ELSE pc
    /\ UNCHANGED <<svcVars, auxVars, exVars, search, channels, workspace, queue, running,
                   futures, digest>>

\* every future has been handed out: process_channels returns and
\* generate_digest summarises each channel it holds
FinishRun ==
    /\ pc = "pool"
    /\ queue = <<>>
    /\ running = {}
    /\ collected = DOMAIN futures
    /\ digest' = Summaries(channel_summaries, workspace)
    /\ pc' = "done"
    /\ UNCHANGED <<svcVars, auxVars, exVars, search, channels, workspace, queue, running,
                   futures, collected, channel_summaries>>

NextDigest ==
    \/ StartRun
    \/ WorkerStart
    \/ WorkerFinish
    \/ Collect
    \/ FinishRun

SpecDigest == InitDigest /\ [][NextDigest]_vars

SpecPool == InitPool /\ [][NextDigest]_vars

(***************************************************************************)
(* Claims about the digest run                                             *)
(***************************************************************************)
\* the messages the window of a channel really holds: those of every page
RECURSIVE WindowMessages(_)
WindowMessages(history) ==
    IF history = <<>> THEN <<>>
    ELSE Head(history).messages \o WindowMessages(Tail(history))

\* processing the channel meets a failure: an API error or other exception
\* while fetching, or an exception while summarising
Fails(behaviour) ==
    \/ \E i \in 1..Len(behaviour.history) : behaviour.history[i].outcome # "ok"
    \/ HasRoot(behaviour.history) /\ behaviour.thread # "ok"
    \/ BotMsg \in Range(WindowMessages(behaviour.history))
    \/ behaviour.llm # "ok"

\* the channel has activity as process_channel counts it: a top-level
\* message in the window
HasActivity(behaviour) ==
    \E m \in Range(WindowMessages(behaviour.history)) : ~IsReply(m)

ActiveIds == {i \in DOMAIN channels : IsActive(channels[i])}

\* C5: a failure while processing one channel never keeps another channel
\* out of the digest: the run is never aborted, and when it is done every
\* active channel that met no failure and has activity (a top-level message
\* in the window) is a key of the digest.
C5_FailureIsolated ==
    /\ pc # "aborted"
    /\ pc = "done" =>
          \A i \in ActiveIds :
              (~Fails(workspace[i]) /\ HasActivity(workspace[i]))
                  => channels[i].name \in DOMAIN digest

\* C5 witness: a finished run in which the job of one channel raised and
\* another, failure-free channel is in the digest
C5_Witness ==
    /\ pc = "done"
    /\ \E i \in ActiveIds : futures[i].raised
    /\ \E i \in ActiveIds :
          /\ ~Fails(workspace[i])
          /\ channels[i].name \in DOMAIN digest

\* C6: a channel whose processing failed (chat-API error during the fetch,
\* or an error while summarising) is not a key of the returned digest.
C6_FailedChannelOmitted ==
    pc = "done" =>
        \A i \in ActiveIds :
            Fails(workspace[i]) => channels[i].name \notin DOMAIN digest

\* the exclusion policy: names with the prefix "internal-"
IsExcluded(name) == name.prefix = "internal-"

\* C7: a channel whose name matches the exclusion policy is never a key of
\* the returned digest.
C7_InternalExcluded ==
    pc = "done" => \A name \in DOMAIN digest : ~IsExcluded(name)

\* C8: a channel with zero messages in the window is not a key of the
\* digest (so never holds a placeholder summary), and when every channel
\* has zero messages the digest is the empty mapping and the run ends
\* without an error.
C8_EmptyWindowAbsent ==
    /\ pc # "aborted"
    /\ \A name \in DOMAIN digest : digest[name] # "no activity"
    /\ pc = "done" =>
          /\ \A i \in DOMAIN channels :
                WindowMessages(workspace[i].history) = <<>>
                    => channels[i].name \notin DOMAIN digest
          /\ (\A i \in DOMAIN channels :
                 WindowMessages(workspace[i].history) = <<>>)
                => digest = <<>>

\* C8 witness: a finished run over an active channel whose window is empty
\* (its one page came back without messages) beside a channel in the digest
C8_Witness ==
    /\ pc = "done"
    /\ \E i \in ActiveIds :
          /\ workspace[i].history = <<OkPage(<<>>)>>
          /\ futures[i].raised = FALSE
    /\ digest # <<>>

\* C9: at every moment of a run at most 10 process_channel jobs execute.
C9_AtMostTenJobs == Cardinality(running) <= 10

\* C9 witness: ten jobs execute while another channel waits in the queue
C9_Witness == Cardinality(running) = 10 /\ queue # <<>>

\* every collected job that found activity has its own data in the dict
NoResultLost ==
    \A i \in collected :
        (~futures[i].raised /\ futures[i].data.has_activity)
            => /\ channels[i].name \in DOMAIN channel_summaries
               /\ channel_summaries[channels[i].name] = futures[i].data

\* a step that changes the dict is the orchestrating thread's: it takes one
\* finished future and starts or ends no job
OnlyOrchestratorWrites ==
    channel_summaries' # channel_summaries =>
        /\ \E i \in DOMAIN futures \ collected :
              /\ collected' = collected \cup {i}
              /\ channel_summaries' =
                     DictSet(channel_summaries, channels[i].name,
                             futures[i].data)
        /\ UNCHANGED <<running, futures, queue>>

\* C10: worker jobs never write the shared result dict, only the
\* orchestrating thread stores each finished job's returned value, and under
\* every interleaving no channel's result is lost or overwritten.
C10_ResultsSafe == []NoResultLost /\ [][OnlyOrchestratorWrites]_vars

\* C10 witness: one job is still executing while the orchestrating thread
\* has already stored the result of another
C10_Witness ==
    /\ running # {}
    /\ \E i \in collected : channels[i].name \in DOMAIN channel_summaries

(***************************************************************************)
(* Stored messages as the renderers read them                              *)
(***************************************************************************)
\* A Slack timestamp text.  The chat API writes six fraction digits
\* ("17.000100"); micros is the number the text denotes, digits the number
\* of fraction digits it is written with.
SlackTs(micros) == [micros |-> micros, digits |-> 6]

\* str(float(ts)), the 'ts' of a row read back from the REAL column: the
\* shortest text of the float, which drops the trailing zeros
StrFloat(micros) ==
    [micros |-> micros, digits |-> IF micros % 10 = 0 THEN 5 ELSE 6]

\* a 'thread_ts' of None
NoTs == [micros |-> 0, digits |-> 0]

\* The dict get_messages_by_date_range builds from a row: 'ts' is
\* str(row.timestamp), 'thread_ts' the stored text of the chat API or None
\* (the key is always present).
StoredMessage(micros, thread_micros, text) ==
    [ts |-> StrFloat(micros),
     thread_ts |-> IF thread_micros = 0 THEN NoTs ELSE SlackTs(thread_micros),
     text |-> text]

\* The stored messages of one channel: a thread whose root has a timestamp
\* ending in a zero digit with one reply, a thread whose root has not with
\* two replies, and a message outside any thread.  The roots and that
\* message are submissions.
Store ==
    {StoredMessage(10, 10, TextAnchor), StoredMessage(21, 10, TextPlain),
     StoredMessage(11, 11, TextAnchor), StoredMessage(32, 11, TextPlain),
     StoredMessage(41, 11, TextPlain), StoredMessage(53, 0, TextAnchor)}

\* the longest window a rendering call reads
MaxWindow == 3

\* What the date-range query returns: messages of the store, each once, in
\* the order the storage engine yields them (the query has no ORDER BY).
Windows ==
    UNION {{w \in [1..n -> Store] :
               \A i, j \in 1..n : i # j => w[i] # w[j]} : n \in 0..MaxWindow}

\* one line of a context: what it renders, and of which message
Line(kind, ts) == [kind |-> kind, ts |-> ts]

\* float(x.get('ts', 0))
FloatTs(msg) == msg.ts.micros

\* list.sort(key=lambda x: float(x.get('ts', 0))): stable, ascending
RECURSIVE SortByTs(_)
SortByTs(msgs) ==
    IF msgs = <<>> THEN <<>>
    ELSE LET last == msgs[Len(msgs)]
             rest == SortByTs(SubSeq(msgs, 1, Len(msgs) - 1))
         IN  SelectSeq(rest, LAMBDA m : FloatTs(m) <= FloatTs(last))
             \o <<last>>
             \o SelectSeq(rest, LAMBDA m : FloatTs(m) > FloatTs(last))

\* the keys of thread_messages in insertion order; the key of a message is
\* msg.get('thread_ts', msg.get('ts')), and 'thread_ts' is always present
RECURSIVE ThreadKeys(_)
ThreadKeys(window) ==
    IF window = <<>> THEN <<>>
    ELSE KeysSet(ThreadKeys(SubSeq(window, 1, Len(window) - 1)),
                 window[Len(window)].thread_ts)

\* The lines of one thread of the "Thread Replies" section: nothing when no
\* message of the group has the group's key as its 'ts'.
ThreadBlock(window, thread_ts) ==
    LET thread_msgs ==
            SortByTs(SelectSeq(window, LAMBDA m : m.thread_ts = thread_ts))
        parents == SelectSeq(thread_msgs, LAMBDA m : m.ts = thread_ts)
        replies == SelectSeq(thread_msgs, LAMBDA m : m.ts # thread_ts)
    IN  IF parents = <<>> THEN <<>>
        ELSE <<Line("parent", parents[1].ts)>>
             \o [i \in 1..Len(replies) |-> Line("reply", replies[i].ts)]
             \o <<Line("---", NoTs)>>

RECURSIVE ThreadBlocks(_, _)
ThreadBlocks(window, keys) ==
    IF keys = <<>> THEN <<>>
    ELSE ThreadBlock(window, Head(keys)) \o ThreadBlocks(window, Tail(keys))

\* build_claude_context_with_all_thread_replies.  semantic_results are the
\* document texts semantic_search returns; result.get(...) on a text raises
\* AttributeError, so with any result at all the call raises.
build_claude_context_with_all_thread_replies(window, semantic_results) ==
    IF semantic_results # <<>>
    THEN [raised |-> TRUE, lines |-> <<>>]
    ELSE [raised |-> FALSE,
          lines |-> <<Line("=== Thread Replies ===", NoTs)>>
                    \o ThreadBlocks(window, ThreadKeys(window))]

\* build_claude_context_by_candidate (the second definition of that name in
\* the class, which replaces the first).  Its first statement per message,
\* candidate_extractor.extract_candidates(msg.get('text', '')), lacks the
\* channel_name argument of CandidateExtractor.extract_candidates and raises
\* TypeError; only an empty window gets past the loop.
build_claude_context_by_candidate(window) ==
    IF window = <<>> THEN [raised |-> FALSE, lines |-> <<>>]
    ELSE [raised |-> TRUE, lines |-> <<>>]

\* data_store.get_messages(channel_id, start_ts, end_ts): the messages of
\* the range as the data model describes them, a thread root's thread
\* timestamp being equal to its own timestamp
get_messages(window) ==
    [i \in 1..Len(window) |->
        [window[i] EXCEPT !.ts = SlackTs(window[i].ts.micros)]]

\* data_store.get_message_by_ts(parent_ts): the stored message with that
\* timestamp, if any (a set of at most one message)
get_message_by_ts(ts) == {m \in Store : FloatTs(m) = ts.micros}

Reverse(seq) == [i \in 1..Len(seq) |-> seq[Len(seq) + 1 - i]]

\* data_store.get_thread_replies(ts): the stored replies of the thread, in
\* the order the storage engine yields them (ascending timestamps or not)
get_thread_replies(ts, ascending) ==
    LET found == {m \in Store : /\ m.thread_ts.micros = ts.micros
                                /\ FloatTs(m) # ts.micros}
        replies == SortByTs(CHOOSE seq \in [1..Cardinality(found) -> found] :
                                \A m \in found : m \in Range(seq))
    IN  IF ascending THEN replies ELSE Reverse(replies)

\* `message.get('thread_ts') and message.get('ts') != message.get('thread_ts')`
IsStoredReply(message) ==
    message.thread_ts # NoTs /\ message.ts # message.thread_ts

\* the first loop of build_claude_context over a channel's messages: one
\* "Parent Message" line per thread with a reply among them, if the parent
\* lookup finds the root
RECURSIVE ParentLines(_, _)
ParentLines(channel_msgs, included_parents) ==
    IF channel_msgs = <<>> THEN <<>>
    ELSE LET message == Head(channel_msgs)
             parent_ts == message.thread_ts
             found == get_message_by_ts(parent_ts)
         IN  IF IsStoredReply(message) /\ parent_ts \notin included_parents
                /\ found # {}
             THEN <<Line("Parent Message", (CHOOSE m \in found : TRUE).ts)>>
                  \o ParentLines(Tail(channel_msgs),
                                 included_parents \cup {parent_ts})
             ELSE ParentLines(Tail(channel_msgs), included_parents)

\* the second loop: replies are skipped; every other message is rendered
\* with the replies get_thread_replies returns for it
RECURSIVE MessageLines(_, _)
MessageLines(channel_msgs, ascending) ==
    IF channel_msgs = <<>> THEN <<>>
    ELSE LET message == Head(channel_msgs)
             thread_replies == get_thread_replies(message.ts, ascending)
             rest == MessageLines(Tail(channel_msgs), ascending)
         IN  IF IsStoredReply(message) THEN rest
             ELSE <<Line("Message", message.ts)>>
                  \o (IF thread_replies = <<>> THEN <<>>
                      ELSE <<Line("Thread Replies:", NoTs)>>
                           \o [i \in 1..Len(thread_replies) |->
                                  Line("reply", thread_replies[i].ts)])
                  \o rest

\* build_claude_context of src/backend (channel-activity mode), for the
\* messages of one channel
build_claude_context(window, ascending) ==
    IF window = <<>> THEN <<>>
    ELSE <<Line("Channel", NoTs)>> \o ParentLines(window, {})
         \o MessageLines(window, ascending)

(***************************************************************************)
(* The rendering calls: each builds its context from what storage holds,   *)
(* and keeps nothing for the next call                                     *)
(***************************************************************************)
InitRender ==
    /\ NoExtractor
    /\ search = NoSearch
    /\ NoDigest
    /\ NoAux
    /\ NoSvc

Rendered(op, window, semantic, ascending, raised, lines) ==
    [op |-> op, window |-> window, semantic |-> semantic,
     ascending |-> ascending, raised |-> raised, lines |-> lines]

\* full-context query mode
RenderFullContext ==
    /\ render = NoRender
    /\ \E window \in Windows, semantic_results \in {<<>>, <<"doc Ann">>} :
          LET res == build_claude_context_with_all_thread_replies(
                         window, semantic_results)
          IN  render' = Rendered("full", window, semantic_results, TRUE,
                                 res.raised, res.lines)
    /\ UNCHANGED <<svcVars, exVars, search, dgVars, fetch, clock>>

\* candidate-pipeline mode
RenderByCandidate ==
    /\ render = NoRender
    /\ \E window \in Windows :
          LET res == build_claude_context_by_candidate(window)
          IN  render' = Rendered("candidate", window, <<>>, TRUE,
                                 res.raised, res.lines)
    /\ UNCHANGED <<svcVars, exVars, search, dgVars, fetch, clock>>

\* channel-activity mode
RenderChannelActivity ==
    /\ render = NoRender
    /\ \E window \in Windows, ascending \in BOOLEAN :
          render' = Rendered("channel", window, <<>>, ascending, FALSE,
                             build_claude_context(get_messages(window),
                                                  ascending))
    /\ UNCHANGED <<svcVars, exVars, search, dgVars, fetch, clock>>

NextRender ==
    \/ RenderFullContext
    \/ RenderByCandidate
    \/ RenderChannelActivity

SpecRender == InitRender /\ [][NextRender]_vars

(***************************************************************************)
(* Claims about the rendered contexts                                      *)
(***************************************************************************)
\* C11: in every rendered context, of any mode, the replies listed for one
\* thread (a run of reply lines) are in non-decreasing timestamp order,
\* whatever order storage returned the messages or the replies in.
C11_RepliesChronological ==
    render.op # "none" =>
        \A i \in 1..(Len(render.lines) - 1) :
            (render.lines[i].kind = "reply"
             /\ render.lines[i + 1].kind = "reply")
                => render.lines[i].ts.micros <= render.lines[i + 1].ts.micros

\* the message is the root of a thread: its thread timestamp is its own
IsThreadRoot(msg) == msg.thread_ts.micros = FloatTs(msg)

\* the replies to the root among the messages of the window
RepliesIn(window, root) ==
    {m \in Range(window) :
        m.thread_ts.micros = FloatTs(root) /\ FloatTs(m) # FloatTs(root)}

\* line j belongs to the block line i opens: no block starts in between
SameBlock(lines, i, j, opener) ==
    i < j /\ \A k \in (i + 1)..j : lines[k].kind # opener

\* C18: full-context mode renders every thread root of the queried window
\* in the Thread Replies section, with all of its replies of the window,
\* whether or not semantic search returned anything.
C18_EveryRootWithReplies ==
    render.op = "full" =>
        /\ ~render.raised
        /\ \A root \in Range(render.window) :
              IsThreadRoot(root) =>
                  \E i \in 1..Len(render.lines) :
                      /\ render.lines[i] = Line("parent", root.ts)
                      /\ \A reply \in RepliesIn(render.window, root) :
                            \E j \in 1..Len(render.lines) :
                                /\ render.lines[j] = Line("reply", reply.ts)
                                /\ SameBlock(render.lines, i, j, "parent")

\* C19: channel-activity mode renders, for every reply of the render set
\* whose thread root is outside the set, a "Parent Message" line of that
\* root and after it the reply; no such reply is dropped.
C19_ParentLineThenReplies ==
    render.op = "channel" =>
        \A reply \in Range(render.window) :
            (/\ reply.thread_ts # NoTs
             /\ ~IsThreadRoot(reply)
             /\ \A m \in Range(render.window) :
                   FloatTs(m) # reply.thread_ts.micros)
                => \E i, j \in 1..Len(render.lines) :
                      /\ render.lines[i].kind = "Parent Message"
                      /\ render.lines[i].ts.micros = reply.thread_ts.micros
                      /\ i < j
                      /\ render.lines[j].kind = "reply"
                      /\ render.lines[j].ts.micros = FloatTs(reply)

\* C20: candidate-pipeline mode renders every submission without thread
\* replies with the line "no feedback from client" followed by the
\* follow-up instruction, and never renders one with replies so.
C20_NoFeedbackFallback ==
    render.op = "candidate" =>
        \A anchor \in Range(render.window) :
            LinkMatches(anchor.text) # <<>> =>
                LET fallback ==
                        \E i \in 1..(Len(render.lines) - 1) :
                            /\ render.lines[i] =
                                   Line("no feedback from client", anchor.ts)
                            /\ render.lines[i + 1].kind =
                                   "status: Follow up with client"
                IN  fallback <=> RepliesIn(render.window, anchor) = {}

(***************************************************************************)
(* The fetch loops over the chat API                                       *)
(***************************************************************************)
\* the methods that page through (or ask once for) a chat-API listing
HistoryOps ==
    {"SlackDigestGenerator.get_conversation_history",
     "InteractiveSlackAnalyzer.get_conversation_history",
     "SlackAnalyzerCore.fetch_and_store_channel_messages"}

FetchOps ==
    HistoryOps \cup {"InteractiveSlackAnalyzer.get_thread_messages",
                     "SlackAnalyzerCore.fetch_all_channels",
                     "SlackAnalyzerCore.fetch_thread_replies"}

\* What the chat API answers to one request: the page asked for, a
\* SlackApiError whose error is 'ratelimited', a SlackApiError with another
\* error, or an exception of another class.
Answers == {"ok", "ratelimited", "slack_error", "error"}

\* What the try/except around the request does with the answer: extend the
\* list with the page, retry (sleep Retry-After, then `continue` or call
\* itself again with the same arguments), break out of the loop with the
\* list so far, return an empty list, or let the exception go.
OnAnswer(op, answer) ==
    CASE answer = "ok" -> "extend"
      [] op = "SlackDigestGenerator.get_conversation_history" ->
             IF answer = "error" THEN "raise" ELSE "break"
      [] op = "SlackAnalyzerCore.fetch_and_store_channel_messages" -> "break"
      [] op = "SlackAnalyzerCore.fetch_all_channels" ->
             IF answer = "ratelimited" THEN "retry" ELSE "raise"
      [] op = "SlackAnalyzerCore.fetch_thread_replies" ->
             IF answer = "ratelimited" THEN "retry" ELSE "return_empty"
      [] OTHER -> IF answer = "ratelimited" THEN "retry" ELSE "break"

\* the most pages a listing has
MaxPages == 2

\* the items of the i-th page of a listing
PageOf(i) == <<10 * i + 1, 10 * i + 2>>

RECURSIVE AllPages(_)
AllPages(n) == IF n = 0 THEN <<>> ELSE AllPages(n - 1) \o PageOf(n)

InitFetch ==
    /\ NoExtractor
    /\ search = NoSearch
    /\ NoDigest
    /\ NoAux
    /\ NoSvc

\* The method is called: cursor = None, an empty list.  cursor is kept as
\* the number of the page the next request asks for; fetch_thread_replies
\* asks once, for a listing of one page.
FetchStart ==
    /\ fetch = NoFetch
    /\ \E op \in FetchOps, pages \in 1..MaxPages :
          /\ op = "SlackAnalyzerCore.fetch_thread_replies" => pages = 1
          /\ fetch' = [op |-> op, pages |-> pages, pc |-> "request",
                       cursor |-> 1, all_messages |-> <<>>,
                       answer |-> "none", seen |-> {}, depth |-> 0]
    /\ UNCHANGED <<svcVars, exVars, search, dgVars, render, clock>>

\* the chat API answers the request
ApiAnswer ==
    /\ fetch.op # "none"
    /\ fetch.pc = "request"
    /\ \E answer \in Answers :
          fetch' = [fetch EXCEPT !.pc = "answered", !.answer = answer,
                                 !.seen = @ \cup {answer}]
    /\ UNCHANGED <<svcVars, exVars, search, dgVars, render, clock>>

\* how many nested calls of fetch_thread_replies the interpreter's stack
\* holds before a further call raises RecursionError
RecursionLimit == 3

\* The retry of a rate-limited request.  The loops sleep and `continue`:
\* the same request again, and nothing counts the attempts.
\* fetch_thread_replies calls itself instead, one frame deeper each time;
\* at the interpreter's limit the RecursionError is caught by the innermost
\* `except Exception` (an empty list is returned) or leaves the method.
Retry(f) ==
    IF f.op # "SlackAnalyzerCore.fetch_thread_replies"
    THEN {[f EXCEPT !.pc = "request"]}
    ELSE IF f.depth + 1 < RecursionLimit
    THEN {[f EXCEPT !.pc = "request", !.depth = @ + 1]}
    ELSE {[f EXCEPT !.pc = "returned", !.all_messages = <<>>],
          [f EXCEPT !.pc = "raised"]}

\* the method goes on from the answer, up to its next request or its end
HandleAnswer ==
    /\ fetch.op # "none"
    /\ fetch.pc = "answered"
    /\ LET todo == OnAnswer(fetch.op, fetch.answer)
           page == IF fetch.op = "SlackAnalyzerCore.fetch_thread_replies"
                   THEN Tail(PageOf(fetch.cursor))
                   ELSE PageOf(fetch.cursor)
       IN  fetch' \in
             CASE todo = "extend" ->
                      {[fetch EXCEPT
                           !.all_messages = @ \o page,
                           !.cursor = @ + 1,
                           !.pc = IF fetch.cursor < fetch.pages
                                  THEN "request" ELSE "returned"]}
               [] todo = "retry" -> Retry(fetch)
               [] todo = "break" -> {[fetch EXCEPT !.pc = "returned"]}
               [] todo = "return_empty" ->
                      {[fetch EXCEPT !.pc = "returned",
                                     !.all_messages = <<>>]}
               [] OTHER -> {[fetch EXCEPT !.pc = "raised"]}
    /\ UNCHANGED <<svcVars, exVars, search, dgVars, render, clock>>

NextFetch ==
    \/ FetchStart
    \/ ApiAnswer
    \/ HandleAnswer

\* the chat API answers every request, and the thread in the fetch loop
\* keeps running
SpecFetch == InitFetch /\ [][NextFetch]_vars /\ WF_vars(NextFetch)

\* C14: whatever rate-limit answers are interleaved, and with no other
\* failure, get_conversation_history returns the messages of every page
\* exactly once and in page order.
C14_RateLimitRetried ==
    (/\ fetch.op \in HistoryOps
     /\ fetch.pc \in {"returned", "raised"}
     /\ fetch.seen \subseteq {"ok", "ratelimited"})
        => /\ fetch.pc = "returned"
           /\ fetch.all_messages = AllPages(fetch.pages)

\* C15: every fetch ends, with a result or with the failure surfaced, also
\* against a chat API that answers 'ratelimited' every time.
C15_FetchTerminates ==
    (fetch.op # "none") ~> (fetch.pc \in {"returned", "raised"})

(***************************************************************************)
(* SlackDigestGenerator.get_date_range                                     *)
(***************************************************************************)
\* A datetime: the day counted from a Monday (so weekday() is day % 7), the
\* time of day, and whether it carries a tzinfo (aware) or not (naive).
DateTime(day, hour, minute, second, microsecond, aware) ==
    [day |-> day, hour |-> hour, minute |-> minute, second |-> second,
     microsecond |-> microsecond, aware |-> aware]

\* datetime.now(self.timezone): an aware datetime, any weekday and time
Nows ==
    {DateTime(day, hour, minute, second, microsecond, TRUE) :
        day \in 14..20, hour \in {0, 12, 23}, minute \in {0, 59},
        second \in {0, 59}, microsecond \in {0, 5}}

\* datetime.strptime(s, "%Y-%m-%d"): midnight of the day, naive
strptime(date_str) == DateTime(date_str, 0, 0, 0, 0, FALSE)

\* dt.replace(hour=.., minute=.., second=..): the microsecond stays
Replace(dt, hour, minute, second) ==
    [dt EXCEPT !.hour = hour, !.minute = minute, !.second = second]

\* self.timezone.localize(dt) of pytz: attaches the zone to a naive
\* datetime, raises ValueError("Not naive datetime (tzinfo is already set)")
\* for an aware one
localize(dt) ==
    IF dt.aware THEN [raised |-> TRUE, dt |-> dt]
    ELSE [raised |-> FALSE, dt |-> [dt EXCEPT !.aware = TRUE]]

\* get_date_range(start_date_str, end_date_str); None is an absent argument
get_date_range(now, start_date_str, end_date_str) ==
    LET start_date ==
            IF start_date_str # None
            THEN localize(Replace(strptime(start_date_str), 0, 0, 0))
            ELSE localize(Replace([now EXCEPT !.day = @ - ((now.day % 7) + 7)],
                                  0, 0, 0))
        end_date ==
            IF end_date_str # None
            THEN localize(Replace(strptime(end_date_str), 23, 59, 59))
            ELSE [raised |-> FALSE,
                  dt |-> Replace([start_date.dt EXCEPT !.day = @ + 6],
                                 23, 59, 59)]
    IN  IF start_date.raised \/ end_date.raised
        THEN [raised |-> TRUE, start_date |-> None, end_date |-> None]
        ELSE [raised |-> FALSE, start_date |-> start_date.dt,
              end_date |-> end_date.dt]

InitDates ==
    /\ NoExtractor
    /\ search = NoSearch
    /\ NoDigest
    /\ NoAux
    /\ NoSvc

\* one call of get_date_range, at some moment, with or without the dates
GetDateRange ==
    /\ clock = NoClock
    /\ \E now \in Nows, start_date_str \in {None, 3},
          end_date_str \in {None, 9} :
          LET res == get_date_range(now, start_date_str, end_date_str)
          IN  clock' = [op |-> "get_date_range", now |-> now,
                        start_date_str |-> start_date_str,
                        end_date_str |-> end_date_str,
                        raised |-> res.raised,
                        start_date |-> res.start_date,
                        end_date |-> res.end_date]
    /\ UNCHANGED <<svcVars, exVars, search, dgVars, fetch, render>>

SpecDates == InitDates /\ [][GetDateRange]_vars

\* the Monday of the calendar week before the week of `now`
PreviousMonday(now) == now.day - (now.day % 7) - 7

\* C17: without a start and an end date, get_date_range returns, for every
\* weekday and time of day of `now`, Monday 00:00:00 to Sunday 23:59:59 of
\* the calendar week before, and raises nothing.
C17_PreviousWeekWindow ==
    (clock.op = "get_date_range" /\ clock.start_date_str = None
     /\ clock.end_date_str = None)
        => /\ ~clock.raised
           /\ clock.start_date =
                  DateTime(PreviousMonday(clock.now), 0, 0, 0, 0, TRUE)
           /\ clock.end_date =
                  DateTime(PreviousMonday(clock.now) + 6, 23, 59, 59, 0, TRUE)

(***************************************************************************)
(* Credentials: load_config, the constructors of the backend and the core, *)
(* and the first operations that need the LLM key                          *)
(***************************************************************************)
Credentials == {"SLACK_TOKEN", "OPENAI_API_KEY", "ANTHROPIC_API_KEY"}

\* os.getenv(name): the variable is set to a non-empty value, or not
Getenv(env, name) == name \in env

\* load_config: raises ValueError unless the three keys are set
load_config(env) ==
    IF /\ Getenv(env, "SLACK_TOKEN")
       /\ Getenv(env, "OPENAI_API_KEY")
       /\ Getenv(env, "ANTHROPIC_API_KEY")
    THEN "loaded" ELSE "raised"

\* SlackRAGBackend.__init__(openai_api_key=..., slack_token=...): an
\* argument that is None falls back to the environment.  The two keys are
\* tested; Anthropic(api_key=os.getenv("ANTHROPIC_API_KEY")) is built
\* without a test, and the client accepts an absent key until a request.
SlackRAGBackendInit(env, openai_api_key, slack_token) ==
    LET self_openai_api_key ==
            openai_api_key \/ Getenv(env, "OPENAI_API_KEY")
        self_slack_token == slack_token \/ Getenv(env, "SLACK_TOKEN")
    IN  IF ~self_openai_api_key THEN "raised"
        ELSE IF ~self_slack_token THEN "raised"
        ELSE "constructed"

\* SlackAnalyzerCore.__init__: the chat token and the LLM key are read from
\* the environment and tested
SlackAnalyzerCoreInit(env) ==
    IF ~Getenv(env, "SLACK_TOKEN") THEN "raised"
    ELSE IF ~Getenv(env, "ANTHROPIC_API_KEY") THEN "raised"
    ELSE "constructed"

\* what a request to the LLM does: without a key it always raises
LlmOutcomes(env) ==
    IF Getenv(env, "ANTHROPIC_API_KEY") THEN OptimizerOutcomes
    ELSE {o \in OptimizerOutcomes : ~o.ok}

Result(op, raised, value) == [op |-> op, raised |-> raised, value |-> value]

\* ask_claude: the context is built first (the search may raise), then the
\* key is tested, then the LLM is asked; an LLM failure becomes a string
ask_claude(env, search_raises, outcome) ==
    IF search_raises THEN Result("ask_claude", TRUE, "search failed")
    ELSE IF ~Getenv(env, "ANTHROPIC_API_KEY")
    THEN Result("ask_claude", TRUE, "ANTHROPIC_API_KEY not set")
    ELSE Result("ask_claude", FALSE,
                IF outcome.ok THEN outcome.text ELSE ErrorText(outcome.text))

InitStartup ==
    /\ NoExtractor
    /\ search = NoSearch
    /\ NoDigest
    /\ NoAux
    /\ startup \in {[NoStartup EXCEPT !.env = env] : env \in SUBSET Credentials}
    /\ delivery = NoDelivery
    /\ sync = NoSync
    /\ limiter = NoLimiter
    /\ cache = NoCache

LoadConfig ==
    /\ startup.config = "none"
    /\ startup.backend = "none"
    /\ startup' = [startup EXCEPT !.op = "load_config",
                                  !.config = load_config(startup.env)]
    /\ UNCHANGED <<exVars, search, dgVars, auxVars, delivery, sync, limiter,
                   cache>>

\* the backend is constructed, by the application after load_config or by
\* another caller without it
ConstructBackend ==
    /\ startup.config # "raised"
    /\ startup.backend = "none"
    /\ \E openai_api_key \in BOOLEAN, slack_token \in BOOLEAN :
          startup' = [startup EXCEPT
                          !.op = "SlackRAGBackend",
                          !.args = [openai_api_key |-> openai_api_key,
                                    slack_token |-> slack_token],
                          !.backend = SlackRAGBackendInit(
                              startup.env, openai_api_key, slack_token)]
    /\ UNCHANGED <<exVars, search, dgVars, auxVars, delivery, sync, limiter,
                   cache>>

\* the core is given a constructed backend
ConstructCore ==
    /\ startup.backend = "constructed"
    /\ startup.core = "none"
    /\ startup.result.op = "none"
    /\ startup' = [startup EXCEPT !.op = "SlackAnalyzerCore",
                                  !.core = SlackAnalyzerCoreInit(startup.env)]
    /\ UNCHANGED <<exVars, search, dgVars, auxVars, delivery, sync, limiter,
                   cache>>

AskClaude ==
    /\ startup.backend = "constructed"
    /\ startup.result.op = "none"
    /\ \E search_raises \in BOOLEAN, outcome \in LlmOutcomes(startup.env) :
          startup' = [startup EXCEPT
                          !.op = "ask_claude",
                          !.result = ask_claude(startup.env, search_raises,
                                                outcome)]
    /\ UNCHANGED <<exVars, search, dgVars, auxVars, delivery, sync, limiter,
                   cache>>

OptimizeQuery ==
    /\ startup.backend = "constructed"
    /\ startup.result.op = "none"
    /\ \E query \in Queries, outcome \in LlmOutcomes(startup.env) :
          startup' = [startup EXCEPT
                          !.op = "optimize_query_with_claude",
                          !.result = Result(
                              "optimize_query_with_claude", FALSE,
                              optimize_query_with_claude(query, outcome))]
    /\ UNCHANGED <<exVars, search, dgVars, auxVars, delivery, sync, limiter,
                   cache>>

NextStartup ==
    \/ LoadConfig
    \/ ConstructBackend
    \/ ConstructCore
    \/ AskClaude
    \/ OptimizeQuery

SpecStartup == InitStartup /\ [][NextStartup]_vars

\* C22: a missing chat token, embedding key or LLM key makes construction
\* fail at once: no backend or core is constructed while a credential is
\* missing, to fail or return an error string at a later operation.
C22_MissingKeyFailsConstruction ==
    /\ startup.config = "loaded" => startup.env = Credentials
    /\ startup.backend = "constructed" =>
          "ANTHROPIC_API_KEY" \in startup.env
    /\ startup.core = "constructed" =>
          {"SLACK_TOKEN", "ANTHROPIC_API_KEY"} \subseteq startup.env
    /\ startup.result.op # "none" => "ANTHROPIC_API_KEY" \in startup.env

(***************************************************************************)
(* One digest run as its caller sees it: DigestWorker.run of the desktop   *)
(* application and main() of the command line                              *)
(***************************************************************************)
Callers == {"DigestWorker.run", "main"}

\* What SlackDigestGenerator.__init__ does: it returns; get_user_info meets
\* a SlackApiError (a rejected token, an unknown user) and calls
\* sys.exit(1); or another exception leaves the constructor.
InitOutcomes == {"ok", "sys_exit", "exception"}

NoActivityText == "No activity found for the specified date range."

Delivered(d, signal, exit_code, text, payload) ==
    [d EXCEPT !.op = "delivered", !.signal = signal,
              !.exit_code = exit_code, !.text = text, !.payload = payload]

\* the end of a run whose generator was not constructed.  SystemExit is not
\* an Exception: the worker's `except Exception` lets it pass and no signal
\* is emitted, the interpreter then ends the thread or the process.
FailedStart(d, exits) ==
    CASE d.caller = "main" ->
             Delivered(d, "none", "1", "error printed", <<>>)
      [] d.caller = "DigestWorker.run" /\ d.init = "sys_exit" ->
             Delivered(d, "none", IF exits THEN "1" ELSE "none",
                       "error printed", <<>>)
      [] OTHER -> Delivered(d, "error", "none", "str(e)", <<>>)

\* the end of a run whose generate_digest returned `result`
Deliver(d, result) ==
    CASE d.caller = "main" /\ result # <<>> ->
             Delivered(d, "none", "0", "digest file saved", result)
      [] d.caller = "main" /\ result = <<>> ->
             Delivered(d, "none", "0", "No activity found", <<>>)
      [] d.caller = "DigestWorker.run" /\ result # <<>> ->
             Delivered(d, "finished", "none", "", result)
      [] OTHER -> Delivered(d, "error", "none", NoActivityText, <<>>)

InitDelivery == InitDigest

\* the caller constructs the generator and computes the date range
RunBegin ==
    /\ delivery = NoDelivery
    /\ pc = "idle"
    /\ \E caller \in Callers, init \in InitOutcomes :
          delivery' = [NoDelivery EXCEPT !.op = "running",
                                         !.caller = caller, !.init = init]
    /\ UNCHANGED <<exVars, search, dgVars, auxVars, startup, sync, limiter,
                   cache>>

\* the constructor did not return: the run ends here
RunFailedStart ==
    /\ delivery.op = "running"
    /\ delivery.init # "ok"
    /\ \E exits \in BOOLEAN : delivery' = FailedStart(delivery, exits)
    /\ UNCHANGED <<exVars, search, dgVars, auxVars, startup, sync, limiter,
                   cache>>

\* generator.generate_digest(start_ts, end_ts) is called
RunGenerate ==
    /\ delivery.op = "running"
    /\ delivery.init = "ok"
    /\ StartRun

\* generate_digest has returned: the caller hands the result on
RunDeliver ==
    /\ delivery.op = "running"
    /\ pc = "done"
    /\ delivery' = Deliver(delivery, digest)
    /\ UNCHANGED <<exVars, search, dgVars, auxVars, startup, sync, limiter,
                   cache>>

NextDelivery ==
    \/ RunBegin
    \/ RunFailedStart
    \/ RunGenerate
    \/ WorkerStart
    \/ WorkerFinish
    \/ Collect
    \/ FinishRun
    \/ RunDeliver

SpecDelivery == InitDelivery /\ [][NextDelivery]_vars

\* no channel had activity and nothing failed
EmptyWindow ==
    \A i \in ActiveIds :
        ~HasActivity(workspace[i]) /\ ~Fails(workspace[i])

\* the outcomes through which a failed run reaches the caller
IsFailureOutcome(d) == d.signal = "error" \/ d.exit_code = "1"

\* C23: a run over an empty window ends with a normal, non-error empty
\* result, never with the outcome a failed run is delivered through (the
\* error signal, an exception, a failing exit).
C23_EmptyIsNotFailure ==
    (delivery.op = "delivered" /\ delivery.init = "ok" /\ EmptyWindow)
        => /\ ~IsFailureOutcome(delivery)
           /\ delivery.payload = <<>>

(***************************************************************************)
(* SlackAnalyzerCore: fetching a channel's window and storing it           *)
(***************************************************************************)
SyncMsg(ts, thread_ts) == [ts |-> ts, thread_ts |-> thread_ts]

\* The messages a window may hold: a plain message, a thread root (ts 4)
\* with a reply, and replies to two roots (ts 1 and 2) older than the
\* window.
ThreadRoots == {1, 2, 4}
WindowPool ==
    {SyncMsg(5, None), SyncMsg(4, 4), SyncMsg(6, 4), SyncMsg(7, 1),
     SyncMsg(8, 2)}

\* conversations_history lists the newest message first
RECURSIVE NewestFirst(_)
NewestFirst(S) ==
    IF S = {} THEN <<>>
    ELSE LET m == CHOOSE x \in S : \A y \in S : y.ts <= x.ts
         IN  <<m>> \o NewestFirst(S \ {m})

\* conversations_replies(ts=parent_ts, limit=1) for a root that is not in
\* all_messages: the root, no message, or an exception
ParentAnswers == {"ok", "empty", "error"}

\* msg.get('thread_ts') and msg.get('thread_ts') != msg.get('ts')
IsSyncReply(msg) == msg.thread_ts # None /\ msg.thread_ts # msg.ts

\* parent_ts_needed - existing_parent_ts
missing_parents(all_messages) ==
    {all_messages[i].thread_ts :
        i \in {j \in 1..Len(all_messages) : IsSyncReply(all_messages[j])}}
    \ {all_messages[i].ts : i \in 1..Len(all_messages)}

\* the loop over missing_parents: a parent that was fetched is appended to
\* all_messages, an empty answer or an exception appends nothing
RECURSIVE AppendParents(_, _, _)
AppendParents(all_messages, missing, parents) ==
    IF missing = {} THEN all_messages
    ELSE LET parent_ts == CHOOSE t \in missing : \A u \in missing : t <= u
         IN  AppendParents(
                 IF parents[parent_ts] = "ok"
                 THEN Append(all_messages, SyncMsg(parent_ts, parent_ts))
                 ELSE all_messages,
                 missing \ {parent_ts}, parents)

\* store_messages: INSERT OR REPLACE, one row per message id (channel, ts)
store_messages(stored, all_messages) ==
    {row \in stored : \A i \in 1..Len(all_messages) :
                          all_messages[i].ts # row.ts}
    \cup Range(all_messages)

\* the replies of the roots of the window, parent excluded (replies[1:])
thread_replies(all_messages) ==
    IF SyncMsg(4, 4) \in Range(all_messages) THEN <<SyncMsg(6, 4)>> ELSE <<>>

\* the steps of the two methods after the history loop, in code order;
\* between its two steps fetch_and_store_channel_messages flattens and
\* indexes the messages for the search, which changes neither all_messages
\* nor the stored rows
StepsOf(op) ==
    IF op = "fetch_and_store_channel_messages"
    THEN <<"store", "parents">>
    ELSE <<"replies", "parents", "store">>

SyncOps == {"fetch_and_store_channel_messages", "sync_with_api"}

InitSync ==
    /\ NoExtractor
    /\ search = NoSearch
    /\ NoDigest
    /\ NoAux
    /\ startup = NoStartup
    /\ delivery = NoDelivery
    /\ sync = NoSync
    /\ limiter = NoLimiter
    /\ cache = NoCache

\* the method is called and the history loop has ended with some window
SyncFetch ==
    /\ sync = NoSync
    /\ \E op \in SyncOps, window \in SUBSET WindowPool,
          parents \in [ThreadRoots -> ParentAnswers],
          replies \in {"ok", "error"} :
          sync' = [NoSync EXCEPT !.op = op, !.todo = StepsOf(op),
                                 !.window = window,
                                 !.all_messages = NewestFirst(window),
                                 !.parents = parents, !.replies = replies]
    /\ UNCHANGED <<exVars, search, dgVars, auxVars, startup, delivery,
                   limiter, cache>>

\* sync_with_api: every reply of every root of the window is fetched; an
\* exception here is not caught and leaves the method
SyncThreadReplies ==
    /\ sync.todo # <<>>
    /\ Head(sync.todo) = "replies"
    /\ sync' =
          IF sync.replies = "error"
             /\ thread_replies(sync.all_messages) # <<>>
          THEN [sync EXCEPT !.todo = <<>>, !.raised = TRUE]
          ELSE [sync EXCEPT
                    !.todo = Tail(sync.todo),
                    !.all_messages =
                        sync.all_messages
                        \o thread_replies(sync.all_messages)]
    /\ UNCHANGED <<exVars, search, dgVars, auxVars, startup, delivery,
                   limiter, cache>>

SyncMissingParents ==
    /\ sync.todo # <<>>
    /\ Head(sync.todo) = "parents"
    /\ sync' = [sync EXCEPT
                    !.todo = Tail(sync.todo),
                    !.all_messages =
                        AppendParents(sync.all_messages,
                                      missing_parents(sync.all_messages),
                                      sync.parents)]
    /\ UNCHANGED <<exVars, search, dgVars, auxVars, startup, delivery,
                   limiter, cache>>

SyncStore ==
    /\ sync.todo # <<>>
    /\ Head(sync.todo) = "store"
    /\ sync' = [sync EXCEPT
                    !.todo = Tail(sync.todo),
                    !.stored = store_messages(sync.stored,
                                              sync.all_messages)]
    /\ UNCHANGED <<exVars, search, dgVars, auxVars, startup, delivery,
                   limiter, cache>>

NextSync ==
    \/ SyncFetch
    \/ SyncThreadReplies
    \/ SyncMissingParents
    \/ SyncStore

SpecSync == InitSync /\ [][NextSync]_vars

\* the method has completed
SyncCompleted == sync.op # "none" /\ sync.todo = <<>> /\ ~sync.raised

\* C24: when fetch_and_store_channel_messages or sync_with_api has
\* completed, every stored reply whose root was not in the fetched window
\* and whose parent fetch succeeded has its root in storage as well.
C24_ParentStoredWithReply ==
    SyncCompleted =>
        \A row \in sync.stored :
            (/\ IsSyncReply(row)
             /\ \A m \in sync.window : m.ts # row.thread_ts
             /\ sync.parents[row.thread_ts] = "ok")
                => \E root \in sync.stored : root.ts = row.thread_ts

(***************************************************************************)
(* RateLimiter and the rate_limited wrapper (src/rate_limiter.py): a       *)
(* wrapped function called by several threads through one limiter          *)
(***************************************************************************)
\* the threads that call the wrapped function, once each
NumThreads == 2
\* the largest configured max_retries
MaxRetries == 2
\* the last reading of time.time()
MaxTime == 4

\* config.rate_limit_period, in clock ticks
rate_limit_period == 2

\* one thread inside wrapper: where it is, its retries, when its sleep
\* ends, how often func was invoked and how, and how the call ended
IdleThread ==
    [pc |-> "idle", retries |-> 0, wake |-> 0, invocations |-> <<>>,
     ended |-> "no"]

\* _cleanup_old_calls at current_time
cleanup_old_calls(calls, current_time) ==
    SelectSeq(calls, LAMBDA t : current_time - t < rate_limit_period)

\* _wait_time at current_time, on the cleaned list
wait_time(calls, rate_limit_calls, current_time) ==
    IF Len(calls) >= rate_limit_calls
    THEN calls[1] + rate_limit_period - current_time
    ELSE 0

\* config.retry_delay * 2 ** (retries - 1) + random.uniform(0, 1), with
\* retry_delay one tick and the jitter rounded down
RECURSIVE backoff_time(_)
backoff_time(retries) ==
    IF retries <= 1 THEN 1 ELSE 2 * backoff_time(retries - 1)

InitLimiter ==
    /\ NoExtractor
    /\ search = NoSearch
    /\ NoDigest
    /\ NoAux
    /\ startup = NoStartup
    /\ delivery = NoDelivery
    /\ sync = NoSync
    /\ \E max_retries \in 0..MaxRetries, rate_limit_calls \in {1, 2} :
          limiter = [op |-> "rate_limited", now |-> 0, calls |-> <<>>,
                     admitted |-> <<>>, max_retries |-> max_retries,
                     rate_limit_calls |-> rate_limit_calls,
                     threads |-> [th \in 1..NumThreads |-> IdleThread]]
    /\ cache = NoCache

LimiterUnchanged ==
    UNCHANGED <<exVars, search, dgVars, auxVars, startup, delivery, sync,
                cache>>

\* time passes
Tick ==
    /\ limiter.op # "none"
    /\ limiter.now < MaxTime
    /\ limiter' = [limiter EXCEPT !.now = limiter.now + 1]
    /\ LimiterUnchanged

\* wrapper(*args): retries = 0, then the `while` test; with nothing to try
\* the loop is skipped and the wrapper returns None
WrapperCall(th) ==
    /\ limiter.threads[th].pc = "idle"
    /\ limiter.threads[th].ended = "no"
    /\ limiter' =
          IF 0 < limiter.max_retries
          THEN [limiter EXCEPT !.threads[th].pc = "acquire"]
          ELSE [limiter EXCEPT !.threads[th].ended = "returned None"]
    /\ LimiterUnchanged

\* acquire, up to the sleep: the old calls are dropped and the wait is
\* computed; a thread that has to wait sleeps
AcquireWait(th) ==
    /\ limiter.threads[th].pc = "acquire"
    /\ LET cleaned == cleanup_old_calls(limiter.calls, limiter.now)
           wait == wait_time(cleaned, limiter.rate_limit_calls, limiter.now)
       IN  limiter' =
               [limiter EXCEPT
                    !.calls = cleaned,
                    !.threads[th].pc =
                        IF wait > 0 THEN "sleeping" ELSE "append",
                    !.threads[th].wake = limiter.now + wait]
    /\ LimiterUnchanged

\* time.sleep(wait_time) ends, not before its time
AcquireWake(th) ==
    /\ limiter.threads[th].pc = "sleeping"
    /\ limiter.now >= limiter.threads[th].wake
    /\ limiter' = [limiter EXCEPT !.threads[th].pc = "append"]
    /\ LimiterUnchanged

\* self.calls.append(time.time()): the call is admitted
AcquireAppend(th) ==
    /\ limiter.threads[th].pc = "append"
    /\ limiter' = [limiter EXCEPT
                       !.calls = Append(limiter.calls, limiter.now),
                       !.admitted = Append(limiter.admitted, limiter.now),
                       !.threads[th].pc = "func"]
    /\ LimiterUnchanged

\* func(*args) returns or raises; the wrapper returns the result, raises
\* the exception of the last attempt, or backs off and tries again
FuncEnds(th) ==
    /\ limiter.threads[th].pc = "func"
    /\ \E ok \in BOOLEAN :
          LET t == limiter.threads[th]
              invocations == Append(t.invocations, ok)
              retries == t.retries + 1
          IN  limiter' =
                  [limiter EXCEPT !.threads[th] =
                      IF ok
                      THEN [t EXCEPT !.pc = "idle", !.ended = "returned",
                                     !.invocations = invocations]
                      ELSE IF retries = limiter.max_retries
                      THEN [t EXCEPT !.pc = "idle", !.ended = "raised",
                                     !.invocations = invocations,
                                     !.retries = retries]
                      ELSE [t EXCEPT !.pc = "backoff",
                                     !.wake = limiter.now
                                              + backoff_time(retries),
                                     !.invocations = invocations,
                                     !.retries = retries]]
    /\ LimiterUnchanged

\* the backoff sleep ends and the loop tests `retries < max_retries` again
BackoffEnds(th) ==
    /\ limiter.threads[th].pc = "backoff"
    /\ limiter.now >= limiter.threads[th].wake
    /\ limiter' = [limiter EXCEPT !.threads[th].pc = "acquire"]
    /\ LimiterUnchanged

NextLimiter ==
    \/ Tick
    \/ \E th \in 1..NumThreads : WrapperCall(th)
    \/ \E th \in 1..NumThreads : AcquireWait(th)
    \/ \E th \in 1..NumThreads : AcquireWake(th)
    \/ \E th \in 1..NumThreads : AcquireAppend(th)
    \/ \E th \in 1..NumThreads : FuncEnds(th)
    \/ \E th \in 1..NumThreads : BackoffEnds(th)

SpecLimiter == InitLimiter /\ [][NextLimiter]_vars

\* C25: a call through the wrapper that has ended invoked func at least
\* once and at most max_retries times, the invocation that succeeded is the
\* last one and its result was returned, and when every attempt raised the
\* call raised; for every max_retries >= 0.
C25_OneToMaxRetriesAttempts ==
    \A th \in DOMAIN limiter.threads :
        LET t == limiter.threads[th]
            n == Len(t.invocations)
        IN  t.ended # "no" =>
                /\ n >= 1
                /\ n <= limiter.max_retries
                /\ \A i \in 1..(n - 1) : ~t.invocations[i]
                /\ t.invocations[n] <=> t.ended = "returned"
                /\ ~t.invocations[n] <=> t.ended = "raised"

\* how many calls were admitted at a time in t .. t + period - 1
AdmittedIn(t) ==
    Cardinality({i \in 1..Len(limiter.admitted) :
                    /\ limiter.admitted[i] >= t
                    /\ limiter.admitted[i] < t + rate_limit_period})

\* C26: whatever the interleaving of the threads' acquire calls, no window
\* of rate_limit_period holds more than rate_limit_calls admitted calls.
C26_WindowNeverOverfull ==
    \A t \in 0..MaxTime : AdmittedIn(t) <= limiter.rate_limit_calls

(***************************************************************************)
(* PersistentCache (src/cache.py).  self.cache is a dict: it is held as    *)
(* the sequence of its items in insertion order, which is the order        *)
(* sorted() starts from.                                                   *)
(***************************************************************************)
CacheKeys == {"a", "b"}
CacheValues == {"v1", "v2"}
\* the last reading of time.time()
MaxClock == 3
\* the largest configured max_size
MaxSize == 1

Item(key, value, timestamp) ==
    [key |-> key, value |-> value, timestamp |-> timestamp]

\* key in self.cache
HasKey(items, key) == \E i \in 1..Len(items) : items[i].key = key

\* self.cache[key]
ItemOf(items, key) == items[CHOOSE i \in 1..Len(items) : items[i].key = key]

\* self.cache[key] = (value, time.time()): a known key keeps its place
SetItem(items, key, value, now) ==
    IF HasKey(items, key)
    THEN [i \in 1..Len(items) |->
             IF items[i].key = key THEN Item(key, value, now) ELSE items[i]]
    ELSE Append(items, Item(key, value, now))

\* del self.cache[key]
DelItem(items, key) == SelectSeq(items, LAMBDA it : it.key # key)

\* one item put into a list sorted by timestamp, after its equals
RECURSIVE InsertByTimestamp(_, _)
InsertByTimestamp(sorted, it) ==
    IF sorted = <<>> THEN <<it>>
    ELSE IF it.timestamp < Head(sorted).timestamp THEN <<it>> \o sorted
    ELSE <<Head(sorted)>> \o InsertByTimestamp(Tail(sorted), it)

\* sorted(self.cache.items(), key=lambda x: x[1][1]): stable
RECURSIVE SortedItems(_)
SortedItems(items) ==
    IF items = <<>> THEN <<>>
    ELSE InsertByTimestamp(SortedItems(SubSeq(items, 1, Len(items) - 1)),
                           items[Len(items)])

\* seq[-n:] as Python slices: -0 is 0, so seq[-0:] is the whole list
SliceLast(seq, n) ==
    IF n = 0 \/ n >= Len(seq) THEN seq
    ELSE SubSeq(seq, Len(seq) - n + 1, Len(seq))

\* PersistentCache.set, before the save
cache_set(items, key, value, now, max_size) ==
    LET stored == SetItem(items, key, value, now)
    IN  IF Len(stored) > max_size
        THEN SliceLast(SortedItems(stored), max_size)
        ELSE stored

\* PersistentCache.get: the value and the dict afterwards
cache_get_mut(items, key, now, ttl) ==
    IF HasKey(items, key)
    THEN [result |-> ItemOf(items, key).value, cache |-> items, saved |-> FALSE]
    ELSE [result |-> "None", cache |-> items, saved |-> FALSE]

cache_get(items, key, now, ttl) ==
    IF HasKey(items, key)
    THEN IF now - ItemOf(items, key).timestamp < ttl
         THEN [result |-> ItemOf(items, key).value, cache |-> items,
               saved |-> FALSE]
         ELSE [result |-> "None", cache |-> DelItem(items, key),
               saved |-> TRUE]
    ELSE [result |-> "None", cache |-> items, saved |-> FALSE]

\* a new cache with no cache file on disk, under some configuration
InitCache ==
    /\ NoExtractor
    /\ search = NoSearch
    /\ NoDigest
    /\ NoAux
    /\ startup = NoStartup
    /\ delivery = NoDelivery
    /\ sync = NoSync
    /\ limiter = NoLimiter
    /\ \E max_size \in 0..MaxSize, ttl \in {1, 2} :
          cache = [NoCache EXCEPT !.op = "init", !.max_size = max_size,
                                  !.ttl = ttl]

CacheUnchanged ==
    UNCHANGED <<exVars, search, dgVars, auxVars, startup, delivery, sync,
                limiter>>

\* time passes
ClockTick ==
    /\ cache.op # "none"
    /\ cache.now < MaxClock
    /\ cache' = [cache EXCEPT !.op = "tick", !.now = cache.now + 1]
    /\ CacheUnchanged

\* `written` remembers, apart from the dict, the last set of every key that
\* no delete or clear has followed
CacheSet ==
    /\ cache.op # "none"
    /\ \E key \in CacheKeys, value \in CacheValues :
          LET items == cache_set(cache.cache, key, value, cache.now,
                                 cache.max_size)
          IN  cache' = [cache EXCEPT
                            !.op = "set", !.key = key, !.result = "None",
                            !.before = cache.cache,
                            !.cache = items, !.disk = items,
                            !.written = DictSet(cache.written, key,
                                                Item(key, value, cache.now))]
    /\ CacheUnchanged

CacheGet ==
    /\ cache.op # "none"
    /\ \E key \in CacheKeys :
          LET got == cache_get(cache.cache, key, cache.now, cache.ttl)
          IN  cache' = [cache EXCEPT
                            !.op = "get", !.key = key,
                            !.result = got.result,
                            !.before = cache.cache,
                            !.cache = got.cache,
                            !.disk = IF got.saved THEN got.cache
                                     ELSE cache.disk]
    /\ CacheUnchanged

CacheDelete ==
    /\ cache.op # "none"
    /\ \E key \in CacheKeys :
          cache' = [cache EXCEPT
                        !.op = "delete", !.key = key, !.result = "None",
                        !.before = cache.cache,
                        !.cache = DelItem(cache.cache, key),
                        !.disk = IF HasKey(cache.cache, key)
                                 THEN DelItem(cache.cache, key)
                                 ELSE cache.disk,
                        !.written =
                            [k \in DOMAIN cache.written \ {key} |->
                                cache.written[k]]]
    /\ CacheUnchanged

CacheClear ==
    /\ cache.op # "none"
    /\ cache' = [cache EXCEPT
                     !.op = "clear", !.key = "", !.result = "None",
                     !.before = cache.cache, !.cache = <<>>,
                     !.disk = <<>>, !.written = <<>>]
    /\ CacheUnchanged

NextCache ==
    \/ ClockTick
    \/ CacheSet
    \/ CacheGet
    \/ CacheDelete
    \/ CacheClear

SpecCache == InitCache /\ [][NextCache]_vars

\* C27: after every set, for every max_size >= 0, the cache holds at most
\* max_size entries, and what an overflow keeps are the entries with the
\* newest timestamps: nothing removed is newer than something kept.
C27_AtMostMaxSizeNewestKept ==
    cache.op = "set" =>
        /\ Len(cache.cache) <= cache.max_size
        /\ LET stored == SetItem(cache.before, cache.key, "v1", cache.now)
           IN  \A i \in 1..Len(stored) : \A j \in 1..Len(cache.cache) :
                   ~HasKey(cache.cache, stored[i].key)
                       => stored[i].timestamp <= cache.cache[j].timestamp

\* C28: get returns a value only for a key whose last set is less than ttl
\* old and was not followed by a delete, a clear or an eviction, and then
\* returns the value of that set; a get on an expired entry returns None
\* and removes the entry.
C28_NoExpiredValue ==
    cache.op = "get" =>
        /\ cache.result # "None" =>
              /\ cache.key \in DOMAIN cache.written
              /\ cache.written[cache.key].value = cache.result
              /\ cache.now - cache.written[cache.key].timestamp < cache.ttl
              /\ HasKey(cache.before, cache.key)
        /\ (/\ HasKey(cache.before, cache.key)
            /\ cache.now - ItemOf(cache.before, cache.key).timestamp
                   >= cache.ttl)
              => /\ cache.result = "None"
                 /\ ~HasKey(cache.cache, cache.key)

\* C28 witness: a get met an entry as old as ttl, gave None and removed it,
\* while a younger entry stayed in the cache
C28_Witness ==
    /\ cache.op = "get"
    /\ HasKey(cache.before, cache.key)
    /\ cache.now - ItemOf(cache.before, cache.key).timestamp >= cache.ttl
    /\ cache.result = "None"
    /\ ~HasKey(cache.cache, cache.key)
    /\ cache.cache # <<>>

(***************************************************************************)
(* Rendering over several channels at once (channel_id=None): the window   *)
(* then holds the messages of every channel                                *)
(***************************************************************************)
\* a stored message with the channel it belongs to
ChannelMessage(channel_id, micros, thread_micros) ==
    [channel_id |-> channel_id] @@ StoredMessage(micros, thread_micros,
                                                 TextPlain)

\* Two channels, each with a thread whose root was posted at the same
\* timestamp, a reply in each, and a message outside any thread.
ChannelStore ==
    {ChannelMessage("C1", 11, 11), ChannelMessage("C1", 32, 11),
     ChannelMessage("C2", 11, 11), ChannelMessage("C2", 41, 11),
     ChannelMessage("C1", 53, 0), ChannelMessage("C2", 53, 0)}

\* what the date-range query returns without a channel filter
ChannelWindows ==
    UNION {{w \in [1..n -> ChannelStore] :
               \A i, j \in 1..n : i # j => w[i] # w[j]} : n \in 0..MaxWindow}

\* one line of a context and the message it renders
ChannelLine(kind, msg) ==
    [kind |-> kind, ts |-> msg.ts, channel_id |-> msg.channel_id]

\* one thread of the "Thread Replies" section, the messages being grouped
\* under thread_messages[thread_ts] whatever their channel
ThreadBlockAcross(window, thread_ts) ==
    LET thread_msgs ==
            SortByTs(SelectSeq(window, LAMBDA m : m.thread_ts = thread_ts))
        parents == SelectSeq(thread_msgs, LAMBDA m : m.ts = thread_ts)
        replies == SelectSeq(thread_msgs, LAMBDA m : m.ts # thread_ts)
    IN  IF parents = <<>> THEN <<>>
        ELSE <<ChannelLine("parent", parents[1])>>
             \o [i \in 1..Len(replies) |-> ChannelLine("reply", replies[i])]

RECURSIVE ThreadBlocksAcross(_, _)
ThreadBlocksAcross(window, keys) ==
    IF keys = <<>> THEN <<>>
    ELSE ThreadBlockAcross(window, Head(keys))
         \o ThreadBlocksAcross(window, Tail(keys))

\* full-context query mode without a channel
RenderFullContextAcross ==
    /\ render = NoRender
    /\ \E window \in ChannelWindows,
          semantic_results \in {<<>>, <<"doc Ann">>} :
          render' =
              Rendered("full", window, semantic_results, TRUE,
                       semantic_results # <<>>,
                       IF semantic_results # <<>> THEN <<>>
                       ELSE ThreadBlocksAcross(window, ThreadKeys(window)))
    /\ UNCHANGED <<svcVars, exVars, search, dgVars, fetch, clock>>

\* candidate-pipeline mode without a channel
RenderByCandidateAcross ==
    /\ render = NoRender
    /\ \E window \in ChannelWindows :
          LET res == build_claude_context_by_candidate(window)
          IN  render' = Rendered("candidate", window, <<>>, TRUE,
                                 res.raised, res.lines)
    /\ UNCHANGED <<svcVars, exVars, search, dgVars, fetch, clock>>

NextRenderAcross ==
    \/ RenderFullContextAcross
    \/ RenderByCandidateAcross

SpecRenderAcross == InitRender /\ [][NextRenderAcross]_vars

\* the line of the thread root a reply line is listed under
RootLineOf(lines, i) ==
    lines[CHOOSE p \in 1..i :
              /\ lines[p].kind = "parent"
              /\ \A q \in (p + 1)..i : lines[q].kind # "parent"]

\* C29: in a context rendered over several channels every reply listed
\* under a thread root belongs to the channel of that root, also when two
\* channels hold messages with equal timestamps.
C29_RepliesOfSameChannel ==
    (render.op # "none" /\ ~render.raised) =>
        \A i \in 1..Len(render.lines) :
            render.lines[i].kind = "reply"
                => render.lines[i].channel_id
                       = RootLineOf(render.lines, i).channel_id

====
